---- MODULE Spec2Model ----
(***************************************************************************)
(* Backup session protocol of the backup server (src/api2/backup.rs,       *)
(* src/api2/backup/upload_chunk.rs) over a datastore with directory locks, *)
(* a chunk store and garbage collection.                                   *)
(*                                                                         *)
(* BackupEnvironment (api2/backup/environment.rs), DataStore, the index    *)
(* writers, the blob codec, prune and garbage collection are not part of   *)
(* the sources at hand; their definitions follow the specification text    *)
(* (sections 4.1 - 4.5) and say so in their comments.                      *)
(***************************************************************************)
EXTENDS Integers, Sequences, FiniteSets, TLC

\* ---------------------------------------------------------------- bounds
NumSessions == 2        \* connection slots that can run a backup session
NumDigests == 2         \* distinct chunk payloads (a digest names its payload)
MaxBackupTime == 2      \* backup-time values 1..MaxBackupTime
MaxWriters == 1         \* index writers a session may allocate
MaxIndexLen == 2        \* entries an index writer accepts
MaxInflight == 2        \* chunk uploads in flight per session
MaxNow == 3             \* wall clock runs 0..MaxNow
MaxBodyLen == 2         \* longest request body, in stream pieces
MaxOffset == 2          \* largest chunk offset a client sends
MaxBadCounter == 9   \* rename_corrupted_chunk: the last counter tried
SafetyMargin == 2       \* GC safety margin, in clock ticks
NumThreads == 3         \* threads calling into one WorkerTask
MaxCalls == 4           \* calls of request_abort and abort_future on one task
NumTasks == 2           \* worker tasks (UPIDs) of one node
MaxMsgLen == 1          \* longest error message, in pieces of text
MaxWarn == 1            \* warnings a task logs
MaxRrdTime == 6         \* update times run up to MaxRrdTime seconds
MaxValue == 1           \* update values run from -1 to MaxValue
RrdResolution == 2      \* seconds per slot of the coarse archive
RrdSlots == 2           \* slots of the coarse archive
MAX_INDEX_TASKS == 1    \* entries kept in the index file (1000, scaled down)
NumInternal == 1        \* internal tasks of one process
NumWorkers == 2         \* worker tasks of one process
MaxBlobLen == 2         \* bytes of data in a blob file

\* ------------------------------------------------------------ value sets
Sessions == 1..NumSessions
Digests == 1..NumDigests
Times == 1..MaxBackupTime
Users == {"u1", "u2"}
NoUser == "nobody"
BenchGroup == "host/benchmark"
Groups == {"vm/100", BenchGroup}
Snapshots == Groups \X Times
NoTime == 0             \* no previous snapshot
ManifestName == "index.json.blob"
FileNames == {"a.didx", "a.fidx", ManifestName}
chunk_size == 2          \* size of a fixed index chunk, in units of 2 MiB
NoDir == [exists |-> FALSE, blobs |-> {}, index |-> <<>>]

VARIABLES
    owner,       \* group -> owner of the group directory, NoUser: no directory
    snaps,       \* snapshot -> its directory: the blobs and closed indices in it
    commits,     \* group -> backup times of its committed snapshots, in commit order
    group_lock,  \* group -> sessions holding the flock on the group directory
    snap_lock,   \* snapshot -> sessions holding the flock on its directory
    env,         \* session -> its BackupEnvironment
    task,        \* session -> its worker task
    uploads,     \* session -> the UploadChunk futures in flight
    acked,       \* session -> digests whose upload was answered with success
    chunks,      \* digest -> mtime of the chunk file, -1: no file
    now,         \* wall clock
    gc,          \* the garbage collection run
    chunk_file,  \* digest -> the blob in the chunk file, NoFile: no file
    bad_files,   \* digest -> number of <digest>.<n>.bad files beside it
    manifest,    \* snapshot -> its manifest blob
    verify,      \* the verification run
    wt,          \* a WorkerTask's abort flag and listeners, and the threads on it
    tl,          \* the worker tasks of the node, their logs and the task list files
    rrd,         \* a round robin database and the updates it was given
    blobr,       \* a DataBlobReader over a blob file and what its caller got
    catalog,     \* a catalog writer's buffer and what a reader decoded from it
    srv          \* the ServerState, WORKER_TASK_LIST and the threads on them

\* What only verification changes.
verifyVars == <<bad_files, manifest, verify>>

\* What only the task and statistics code of the server changes.
serverVars == <<wt, tl, rrd, blobr, catalog, srv>>

vars == <<owner, snaps, commits, group_lock, snap_lock, env, task, uploads,
          acked, chunks, now, gc, chunk_file, verifyVars, serverVars>>

\* ------------------------------------------------------------- helpers
IsSuffix(suffix, name) ==
    CASE suffix = ".didx" -> name = "a.didx"
      [] suffix = ".fidx" -> name = "a.fidx"
      [] suffix = ".blob" -> name \in {ManifestName, "c.blob"}
      [] OTHER -> FALSE

Last(seq) == seq[Len(seq)]

SeqToSet(seq) == {seq[i] : i \in 1..Len(seq)}

RemoveFromSeq(seq, x) == SelectSeq(seq, LAMBDA y : y # x)

Max(S) == CHOOSE x \in S : \A y \in S : y <= x

NoEnv == [group |-> "", time |-> NoTime, user |-> NoUser, benchmark |-> FALSE,
          start |-> 0, last_backup |-> NoTime, finished |-> FALSE, known_chunks |-> {},
          writers |-> <<>>]

NoState == [kind |-> "none", message |-> ""]

NoTask == [phase |-> "none", conn |-> "open", abort_requested |-> FALSE,
           guards |-> <<>>, result |-> "none", state |-> NoState]

NoGc == [phase |-> "idle", mark_start |-> 0, todo |-> {}]

\* No chunk file under a digest.  A chunk file holds a blob: the digest of
\* the payload it decodes to, whether its CRC field matches, the crypt mode
\* its magic number tells and whether the file can be read.
NoFile == [payload |-> 0, crc_ok |-> FALSE, mode |-> "missing",
           readable |-> FALSE]

\* The manifest of a snapshot without one (its blob cannot be loaded).
NoManifest == [loadable |-> FALSE, files |-> <<>>, verify_state |-> "none",
               upid |-> ""]

\* The UPID of the verification worker and the holder of its shared locks.
VerifyUpid == "UPID:verify"
Verifier == 0

\* No verification run.  list: the snapshots still to verify; sn, file, pos:
\* the snapshot, the manifest entry and the index position being verified;
\* errors: the error counter of verify_index_chunks; error_count: the one of
\* verify_backup_dir_with_lock; pool: the chunks sent to the decoder pool;
\* results: what verify_backup_dir returned for each snapshot.
NoVerify ==
    [phase |-> "idle", list |-> <<>>, sn |-> <<"", 0>>, file |-> 0, pos |-> 0,
     errors |-> 0, error_count |-> 0, pool |-> <<>>, verified |-> {},
     corrupt |-> {}, results |-> [sn \in Snapshots |-> "none"]]

\* A WorkerTask as WorkerTask::new leaves it (worker_task.rs:676-684), and
\* the threads that hold a reference to it.  mutex: the thread holding the
\* lock on data, 0: free; chan: the state of the oneshot channel made by the
\* n-th call; pc, cur, seen: each thread's position, channel and the flag it
\* loaded; calls: calls begun so far.
NoWorkerTask ==
    [abort_requested |-> FALSE, mutex |-> 0, abort_listeners |-> <<>>,
     chan |-> [c \in 1..MaxCalls |-> "none"],
     pc |-> [t \in 1..NumThreads |-> "idle"],
     cur |-> [t \in 1..NumThreads |-> 0],
     seen |-> [t \in 1..NumThreads |-> FALSE],
     calls |-> 0]

\* A node without tasks.  task: per UPID whether its worker runs ("running":
\* it is in WORKER_TASK_LIST of a live process), has ended or has died with
\* its process, its start time, the warnings counted, the lines logged, its
\* log file and the state log_result made; active, index, archive: the lines
\* of the three task list files.
NoTaskList ==
    [task |-> [u \in 1..NumTasks |->
                 [status |-> "none", starttime |-> 0, warn_count |-> 0,
                  lines |-> 0, has_log |-> FALSE, log |-> <<>>,
                  state |-> [kind |-> "none", count |-> 0, message |-> <<>>,
                             endtime |-> 0]]],
     active |-> <<>>, index |-> <<>>, archive |-> <<>>, clock |-> 0]

\* f64 values are rationals num/den in lowest terms, or NAN.
NAN == [nan |-> TRUE, num |-> 0, den |-> 1]
Num(n) == [nan |-> FALSE, num |-> n, den |-> 1]

\* No blob reader, an empty catalog buffer, and the ServerState of a new
\* process with what its threads are at: notified: calls of
\* last_worker_listeners.notify_listeners; list, list_lock: WORKER_TASK_LIST
\* and the worker holding its mutex (0: free); wpc, ipc, spc: the position of
\* each worker, internal task and of server_shutdown; logged: the worker's
\* final result line is in its log.
NoBlobReader == [state |-> "none"]
NoCatalog ==
    [stage |-> "none", v |-> <<>>, buf |-> <<>>, written |-> 0, err |-> "",
     decoded |-> <<>>, read |-> 0]
NoServer ==
    [mode |-> "Normal", worker_count |-> 0, internal_task_count |-> 0,
     notified |-> 0, list |-> {}, list_lock |-> 0,
     wpc |-> [w \in 1..NumWorkers |-> "none"],
     logged |-> [w \in 1..NumWorkers |-> FALSE],
     ipc |-> [i \in 1..NumInternal |-> "none"],
     spc |-> "none", alive |-> TRUE]

\* DataSource::new and RRA::new, RRD::new.
DataSource(dst) == [dst |-> dst, last_update |-> 0, last_value |-> NAN]
RRA(cf, resolution, points) ==
    [cf |-> cf, resolution |-> resolution, last_count |-> 0,
     data |-> [i \in 1..points |-> NAN]]
RRD(dst, rra_list) == [source |-> DataSource(dst), rra_list |-> rra_list]

\* A database with the updates it accepted so far, and what the last call
\* of update logged ("": nothing).
NoRrd == [db |-> RRD("Gauge", <<>>), accepted |-> <<>>, result |-> ""]

Init ==
    /\ owner = [g \in Groups |-> NoUser]
    /\ snaps = [sn \in Snapshots |-> NoDir]
    /\ commits = [g \in Groups |-> <<>>]
    /\ group_lock = [g \in Groups |-> {}]
    /\ snap_lock = [sn \in Snapshots |-> {}]
    /\ env = [s \in Sessions |-> NoEnv]
    /\ task = [s \in Sessions |-> NoTask]
    /\ uploads = [s \in Sessions |-> {}]
    /\ acked = [s \in Sessions |-> {}]
    /\ chunks = [d \in Digests |-> -1]
    /\ now = 0
    /\ gc = NoGc
    /\ chunk_file = [d \in Digests |-> NoFile]
    /\ bad_files = [d \in Digests |-> 0]
    /\ manifest = [sn \in Snapshots |-> NoManifest]
    /\ verify = NoVerify
    /\ wt = NoWorkerTask
    /\ tl = NoTaskList
    /\ blobr = NoBlobReader
    /\ catalog = NoCatalog
    /\ srv = NoServer
    /\ rrd = NoRrd

\* ------------------------------------------------ session open (upgrade)
\* BackupInfo::last_backup(base, group, only_finished = true): the latest
\* snapshot of the group that has a manifest, NoTime when there is none.
last_backup(g) ==
    LET done == {t \in Times : snaps[<<g, t>>].exists
                                /\ ManifestName \in snaps[<<g, t>>].blobs}
    IN  IF done = {} THEN NoTime ELSE Max(done)

\* The owner the group has once create_locked_backup_group has run.
GroupOwner(g, userid) == IF owner[g] = NoUser THEN userid ELSE owner[g]

\* lock_dir_noblock (specification 4.4): an exclusive flock taken without
\* blocking; it is granted when nobody holds a lock on the directory.
lock_dir_noblock(holders) == holders = {}

\* The first error of a list of checks, "" when all pass.
FirstError(errs) ==
    LET bad == {i \in 1..Len(errs) : errs[i] # ""} IN
    IF bad = {} THEN "" ELSE errs[CHOOSE i \in bad : \A k \in bad : i <= k]

\* The benchmark flag belongs to the group host/benchmark and to no other.
FlagError(g, benchmark) ==
    CASE g = BenchGroup /\ ~benchmark ->
            "unable to run benchmark without --benchmark flags"
      [] g # BenchGroup /\ benchmark ->
            "benchmark flags is only allowed on 'host/benchmark'"
      [] OTHER -> ""

\* create_locked_backup_group (specification 4.4): the group lock is taken
\* without blocking.
GroupLockError(g) ==
    IF lock_dir_noblock(group_lock[g]) THEN "" ELSE "group already locked"

\* Only the owner of a group adds snapshots to it.
OwnerError(g, userid) ==
    IF GroupOwner(g, userid) # userid /\ g # BenchGroup
    THEN "backup owner check failed" ELSE ""

\* The new snapshot is later than the last finished one.
TimeError(g, t) ==
    IF last_backup(g) # NoTime /\ t <= last_backup(g)
    THEN "backup timestamp is older than last backup." ELSE ""

\* The lock on the last snapshot.
LastLockError(g) ==
    IF last_backup(g) # NoTime
       /\ ~lock_dir_noblock(snap_lock[<<g, last_backup(g)>>])
    THEN "base snapshot is already locked by another operation" ELSE ""

\* create_locked_backup_dir (specification 4.4) and the is_new check.
NewDirError(g, t) ==
    CASE snaps[<<g, t>>].exists -> "backup directory already exists."
      [] ~lock_dir_noblock(snap_lock[<<g, t>>]) -> "snapshot already locked"
      [] OTHER -> ""

\* Faulty variant of OpenError: the group lock is not looked at.
OpenErrorNoGroupLock(g, t, benchmark, userid) ==
    FirstError(<<FlagError(g, benchmark), OwnerError(g, userid),
                 TimeError(g, t), NewDirError(g, t)>>)

\* Faulty variant of OpenError: the backup time is not compared.
OpenErrorNoTimeCheck(g, t, benchmark, userid) ==
    FirstError(<<FlagError(g, benchmark), GroupLockError(g),
                 OwnerError(g, userid), LastLockError(g), NewDirError(g, t)>>)

\* The error upgrade_to_backup_protocol bails with, "" when it spawns the
\* worker.  The checks are in the order of the code.
OpenError(g, t, benchmark, userid) ==
    FirstError(<<FlagError(g, benchmark), GroupLockError(g),
                 OwnerError(g, userid), TimeError(g, t), LastLockError(g),
                 NewDirError(g, t)>>)

\* Whether the group directory lock was taken before the handler bailed, so
\* that create_locked_backup_group has created the group and set its owner.
GroupCreated(err) ==
    err \notin {"unable to run benchmark without --benchmark flags",
                "benchmark flags is only allowed on 'host/benchmark'",
                "group already locked"}

\* The flocks the worker's future keeps, in the order it drops them: the
\* locals _group_guard, _snap_guard, _last_guard go in reverse declaration order.
WorkerGuards(last) ==
    IF last = NoTime THEN <<"snap", "group">> ELSE <<"last", "snap", "group">>

\* Faulty variant of OpenSnapLocks: the previous snapshot is not locked.
OpenSnapLocksNewOnly(s, g, t, last) ==
    [sn \in Snapshots |->
        IF sn = <<g, t>> THEN snap_lock[sn] \cup {s} ELSE snap_lock[sn]]

\* The snapshot locks the open takes for session s: the previous snapshot
\* (when there is one) and the new snapshot directory.
OpenSnapLocks(s, g, t, last) ==
    [sn \in Snapshots |->
        IF sn = <<g, t>> \/ (last # NoTime /\ sn = <<g, last>>)
        THEN snap_lock[sn] \cup {s} ELSE snap_lock[sn]]

upgrade_to_backup_protocol(s, g, t, benchmark, userid) ==
    LET err == OpenError(g, t, benchmark, userid)
        last == last_backup(g)
    IN
    /\ task[s].phase = "none"
    /\ owner' = IF GroupCreated(err)
                THEN [owner EXCEPT ![g] = GroupOwner(g, userid)] ELSE owner
    /\ IF err = ""
       THEN /\ group_lock' = [group_lock EXCEPT ![g] = @ \cup {s}]
            /\ snap_lock' = OpenSnapLocks(s, g, t, last)
            /\ snaps' = [snaps EXCEPT ![<<g, t>>] =
                            [exists |-> TRUE, blobs |-> {}, index |-> <<>>]]
            /\ env' = [env EXCEPT ![s] =
                        [NoEnv EXCEPT !.group = g, !.time = t, !.user = userid,
                                      !.benchmark = benchmark, !.start = now,
                                      !.last_backup = last]]
            /\ task' = [task EXCEPT ![s] =
                        [NoTask EXCEPT !.phase = "running",
                                       !.guards = WorkerGuards(last)]]
       ELSE UNCHANGED <<group_lock, snap_lock, snaps, env, task>>
    /\ UNCHANGED <<commits, uploads, acked, chunks, now, gc, chunk_file,
                   verifyVars, serverVars>>

\* --------------------------------------------------- the worker's future
\* The client closes the connection (how = "closed") or the connection
\* breaks (how = "error"): req_fut resolves.
connection_end(s, how) ==
    /\ task[s].phase = "running"
    /\ task[s].conn = "open"
    /\ task' = [task EXCEPT ![s].conn = how]
    /\ UNCHANGED <<owner, snaps, commits, group_lock, snap_lock, env,
                   uploads, acked, chunks, now, gc, chunk_file, verifyVars, serverVars>>

\* WorkerTask::request_abort: sets the flag and wakes the abort futures.  The
\* task can be aborted as long as it is registered, that is until log_result.
request_abort(s) ==
    /\ task[s].phase \in {"running", "ended"}
    /\ ~task[s].abort_requested
    /\ task' = [task EXCEPT ![s].abort_requested = TRUE]
    /\ UNCHANGED <<owner, snaps, commits, group_lock, snap_lock, env,
                   uploads, acked, chunks, now, gc, chunk_file, verifyVars, serverVars>>

\* What select! can yield: the connection's result and, once abort was
\* requested, the abort future's error.  "" stands for Ok.
SelectResults(s) ==
    (IF task[s].conn = "closed" THEN {""} ELSE {})
    \cup (IF task[s].conn = "error" THEN {"connection error"} ELSE {})
    \cup (IF task[s].abort_requested THEN {"task aborted"} ELSE {})

\* BackupEnvironment::ensure_finished (specification 4.5): fails unless
\* finish has succeeded.
ensure_finished(s) ==
    IF env[s].finished THEN "" ELSE "backup ended but finished flag is not set."

\* Faulty variant of WorkerOutcome: a connection that ends cleanly keeps the
\* snapshot although finish has not succeeded.
WorkerOutcomeKeepsDir(res, finish_err, benchmark) ==
    CASE benchmark -> [remove |-> TRUE, result |-> ""]
      [] res = "" -> [remove |-> FALSE, result |-> ""]
      [] res # "" /\ finish_err = "" -> [remove |-> FALSE, result |-> ""]
      [] OTHER -> [remove |-> TRUE, result |-> res]

\* Faulty variant of WorkerOutcome: a benchmark session is treated like any
\* other session.
WorkerOutcomeNoBenchmark(res, finish_err, benchmark) ==
    CASE res = "" /\ finish_err = "" -> [remove |-> FALSE, result |-> ""]
      [] res # "" /\ finish_err = "" -> [remove |-> FALSE, result |-> ""]
      [] res = "" /\ finish_err # "" -> [remove |-> TRUE, result |-> finish_err]
      [] OTHER -> [remove |-> TRUE, result |-> res]

\* Faulty variant of WorkerOutcome: an error of the connection or an abort
\* fails the backup although finish has succeeded.
WorkerOutcomeErrorFails(res, finish_err, benchmark) ==
    CASE benchmark -> [remove |-> TRUE, result |-> ""]
      [] res = "" /\ finish_err = "" -> [remove |-> FALSE, result |-> ""]
      [] res = "" /\ finish_err # "" -> [remove |-> TRUE, result |-> finish_err]
      [] OTHER -> [remove |-> TRUE, result |-> res]

\* The tail of the worker's async block: what it does with the result of
\* select! and of ensure_finished.  remove: the snapshot directory is
\* removed; result: the future's result, "" for Ok(()).
WorkerOutcome(res, finish_err, benchmark) ==
    CASE benchmark -> [remove |-> TRUE, result |-> ""]
      [] res = "" /\ finish_err = "" -> [remove |-> FALSE, result |-> ""]
      [] res # "" /\ finish_err = "" -> [remove |-> FALSE, result |-> ""]
      [] res = "" /\ finish_err # "" -> [remove |-> TRUE, result |-> finish_err]
      [] OTHER -> [remove |-> TRUE, result |-> res]

\* BackupEnvironment::remove_backup (specification 4.5): unlinks the whole
\* snapshot directory.
remove_backup(sn) == [snaps EXCEPT ![sn] = NoDir]

worker_future_end(s, res) ==
    LET out == WorkerOutcome(res, ensure_finished(s), env[s].benchmark)
        sn == <<env[s].group, env[s].time>>
    IN
    /\ task[s].phase = "running"
    /\ res \in SelectResults(s)
    /\ snaps' = IF out.remove THEN remove_backup(sn) ELSE snaps
    /\ commits' = IF out.remove
                  THEN [commits EXCEPT ![sn[1]] = RemoveFromSeq(@, sn[2])]
                  ELSE commits
    /\ task' = [task EXCEPT ![s].phase = "ended", ![s].result = out.result]
    /\ uploads' = [uploads EXCEPT ![s] = {}]
    /\ UNCHANGED <<owner, group_lock, snap_lock, env, acked, chunks, now, gc,
                   chunk_file, verifyVars, serverVars>>

\* One of the flock guards of the finished future is dropped.
drop_guard(s) ==
    LET g == env[s].group
        which == Head(task[s].guards)
    IN
    /\ task[s].phase = "ended"
    /\ task[s].guards # <<>>
    /\ group_lock' = IF which = "group"
                     THEN [group_lock EXCEPT ![g] = @ \ {s}] ELSE group_lock
    /\ snap_lock' =
         CASE which = "snap" -> [snap_lock EXCEPT ![<<g, env[s].time>>] = @ \ {s}]
           [] which = "last" ->
                [snap_lock EXCEPT ![<<g, env[s].last_backup>>] = @ \ {s}]
           [] OTHER -> snap_lock
    /\ task' = [task EXCEPT ![s].guards = Tail(@)]
    /\ UNCHANGED <<owner, snaps, commits, env, uploads, acked, chunks, now,
                   gc, chunk_file, verifyVars, serverVars>>

\* WorkerTask::create_state: the task state of a result (no warnings are
\* logged by a backup session).
create_state(result) ==
    IF result # "" THEN [kind |-> "Error", message |-> result]
    ELSE [kind |-> "OK", message |-> ""]

\* WorkerTask::log_result, called once the future has completed: the state is
\* logged and the task leaves the list of running tasks.
log_result(s) ==
    /\ task[s].phase = "ended"
    /\ task[s].guards = <<>>
    /\ task' = [task EXCEPT ![s] =
                   [NoTask EXCEPT !.state = create_state(task[s].result)]]
    /\ env' = [env EXCEPT ![s] = NoEnv]
    /\ acked' = [acked EXCEPT ![s] = {}]
    /\ UNCHANGED <<owner, snaps, commits, group_lock, snap_lock, uploads,
                   chunks, now, gc, chunk_file, verifyVars, serverVars>>

\* ------------------------------------------------------- prune / forget
\* Specification 4.4: removing a snapshot takes its lock exclusively without
\* blocking; a held lock makes the removal fail.
forget_snapshot(sn) ==
    /\ snaps[sn].exists
    /\ IF lock_dir_noblock(snap_lock[sn])
       THEN /\ snaps' = [snaps EXCEPT ![sn] = NoDir]
            /\ commits' = [commits EXCEPT ![sn[1]] = RemoveFromSeq(@, sn[2])]
       ELSE UNCHANGED <<snaps, commits>>
    /\ UNCHANGED <<owner, group_lock, snap_lock, env, task, uploads, acked,
                   chunks, now, gc, chunk_file, verifyVars, serverVars>>

\* ------------------------------------------------------------- requests
\* A request reaches its handler while the connection is served.
Serving(s) == task[s].phase = "running" /\ task[s].conn = "open"

\* BackupEnvironment's ensure_unfinished (specification 4.5, S5): every state
\* change of the environment is refused once finish has succeeded.
ensure_unfinished(s) ==
    IF env[s].finished THEN "backup already marked as finished." ELSE ""

\* The plaintext size of the payload with digest d.
PayloadSize(d) == chunk_size

\* A request body: its length in stream pieces, the digest of the payload it
\* encodes and whether its CRC field matches.
Bodies == [len : 1..MaxBodyLen, payload : Digests, crc_ok : BOOLEAN]

\* upload_fixed_chunk / upload_dynamic_chunk up to the first poll: the
\* UploadChunk future is created with the announced values.
upload_chunk(s, kind, wid, digest, size, encoded_size, body) ==
    /\ Serving(s)
    /\ Cardinality(uploads[s]) < MaxInflight
    /\ uploads' = [uploads EXCEPT ![s] = @ \cup
                     {[kind |-> kind, wid |-> wid, digest |-> digest,
                       size |-> size, encoded_size |-> encoded_size,
                       body |-> body, raw_len |-> 0]}]
    /\ UNCHANGED <<owner, snaps, commits, group_lock, snap_lock, env, task,
                   acked, chunks, now, gc, chunk_file, verifyVars, serverVars>>

\* UploadChunk::poll, Some(Ok(input)): one piece of the body arrives.  The
\* error it breaks with, "" when the piece is appended to raw_data.
PollInputError(u) ==
    IF u.raw_len + 1 > u.encoded_size
    THEN "uploaded chunk is larger than announced." ELSE ""

upload_poll_input(s, u) ==
    LET err == PollInputError(u) IN
    /\ Serving(s)
    /\ u \in uploads[s]
    /\ u.raw_len < u.body.len
    /\ uploads' = [uploads EXCEPT ![s] =
                     IF err = "" THEN (@ \ {u}) \cup {[u EXCEPT !.raw_len = @ + 1]}
                     ELSE @ \ {u}]
    /\ UNCHANGED <<owner, snaps, commits, group_lock, snap_lock, env, task,
                   acked, chunks, now, gc, chunk_file, verifyVars, serverVars>>

\* UploadChunk::poll, Some(Err(err)): the body stream fails.
upload_poll_error(s, u) ==
    /\ Serving(s)
    /\ u \in uploads[s]
    /\ u.raw_len < u.body.len
    /\ uploads' = [uploads EXCEPT ![s] = @ \ {u}]
    /\ UNCHANGED <<owner, snaps, commits, group_lock, snap_lock, env, task,
                   acked, chunks, now, gc, chunk_file, verifyVars, serverVars>>

\* DataBlob::from_raw and verify_unencrypted (specification 4.1, 4.5): the
\* CRC, the digest and the plaintext size of the blob are checked against the
\* announced values.
verify_unencrypted(u) ==
    CASE ~u.body.crc_ok -> "blob has wrong CRC checksum."
      [] u.body.payload # u.digest -> "detected chunk with wrong digest."
      [] PayloadSize(u.body.payload) # u.size ->
            "detected chunk with wrong length."
      [] OTHER -> ""

\* Faulty variant of PollEndError: the length of the body is not compared
\* with the announced encoded size.
PollEndErrorNoLength(u) == verify_unencrypted(u)

\* Faulty variant of PollEndError: the blob is not verified against the
\* announced digest and size.
PollEndErrorNoVerify(u) ==
    IF u.raw_len # u.encoded_size THEN "uploaded chunk has unexpected size."
    ELSE ""

\* UploadChunk::poll, None: the error the future resolves to at the end of
\* the body, "" when the chunk goes to insert_chunk.
PollEndError(u) ==
    IF u.raw_len # u.encoded_size THEN "uploaded chunk has unexpected size."
    ELSE verify_unencrypted(u)

\* DataStore::insert_chunk (specification 4.2): an existing chunk file gets
\* its mtime refreshed, a missing one is written.
insert_chunk(d) == [chunks EXCEPT ![d] = now]

\* The blob UploadChunk::poll hands to insert_chunk: the uploaded blob with
\* the CRC recomputed by the server.
StoredBlob(u) ==
    [payload |-> u.body.payload, crc_ok |-> TRUE, mode |-> "none",
     readable |-> TRUE]

\* DataStore::insert_chunk (specification 4.2), the file: an existing chunk
\* file is left as it is, a missing one is written.
write_chunk(u) ==
    IF chunk_file[u.digest] # NoFile THEN chunk_file
    ELSE [chunk_file EXCEPT ![u.digest] = StoredBlob(u)]

\* Whether wid names a registered and open writer of the kind.
WriterOpen(s, kind, wid) ==
    /\ wid \in 1..Len(env[s].writers)
    /\ env[s].writers[wid].kind = kind
    /\ ~env[s].writers[wid].closed
    /\ ~env[s].writers[wid].failed

\* BackupEnvironment::register_fixed_chunk / register_dynamic_chunk
\* (specification 4.5): the error, "" when the digest enters known_chunks.
RegisterChunkError(s, kind, wid) ==
    CASE ensure_unfinished(s) # "" -> ensure_unfinished(s)
      [] ~WriterOpen(s, kind, wid) -> "writer not registered"
      [] OTHER -> ""

\* BackupEnvironment::register_chunk and the insert of register_fixed_chunk /
\* register_dynamic_chunk (specification 4.5): the digest enters the registry.
register_chunk(s, known) == [env EXCEPT ![s].known_chunks = @ \cup known]

\* The error in the response of an upload whose body has ended.
UploadError(s, u) ==
    IF PollEndError(u) # "" THEN PollEndError(u)
    ELSE RegisterChunkError(s, u.kind, u.wid)

\* Faulty variant of upload_poll_end: the upload is answered with success
\* without the chunk being registered.
upload_poll_end_unregistered(s, u) ==
    /\ Serving(s)
    /\ u \in uploads[s]
    /\ u.raw_len = u.body.len
    /\ uploads' = [uploads EXCEPT ![s] = @ \ {u}]
    /\ chunks' = IF PollEndError(u) = "" THEN insert_chunk(u.digest) ELSE chunks
    /\ chunk_file' = IF PollEndError(u) = "" THEN write_chunk(u) ELSE chunk_file
    /\ acked' = IF UploadError(s, u) = ""
                THEN [acked EXCEPT ![s] = @ \cup {u.digest}] ELSE acked
    /\ UNCHANGED <<owner, snaps, commits, group_lock, snap_lock, env, task,
                   now, gc, verifyVars, serverVars>>

\* The end of the body: the future resolves and the closure given to then()
\* registers the chunk and forms the response.
upload_poll_end(s, u) ==
    LET err == PollEndError(u)
        reg == RegisterChunkError(s, u.kind, u.wid)
    IN
    /\ Serving(s)
    /\ u \in uploads[s]
    /\ u.raw_len = u.body.len
    /\ uploads' = [uploads EXCEPT ![s] = @ \ {u}]
    /\ chunks' = IF err = "" THEN insert_chunk(u.digest) ELSE chunks
    /\ chunk_file' = IF err = "" THEN write_chunk(u) ELSE chunk_file
    /\ env' = IF err = "" /\ reg = "" THEN register_chunk(s, {u.digest}) ELSE env
    /\ acked' = IF err = "" /\ reg = ""
                THEN [acked EXCEPT ![s] = @ \cup {u.digest}] ELSE acked
    /\ UNCHANGED <<owner, snaps, commits, group_lock, snap_lock, task, now,
                   gc, verifyVars, serverVars>>

\* --------------------------------------------------------- index writers
\* Index writers (specification 4.3).  data is the digest list: one entry per
\* appended chunk of a dynamic index, one per slot of a fixed index (0: slot
\* not written).  count and size are the totals of the appended chunks, end
\* the last end offset of a dynamic index.
NewWriter(kind, name, data, incremental) ==
    [kind |-> kind, name |-> name, closed |-> FALSE, failed |-> FALSE,
     incremental |-> incremental, data |-> data, count |-> 0, size |-> 0,
     end |-> 0]

\* IndexFile::compute_csum: SHA-256 over the digest list, taken to be free of
\* collisions: two lists have the same csum exactly when they are equal.
compute_csum(data) == data

EmptySlots(size) == [i \in 1..((size + chunk_size - 1) \div chunk_size) |-> 0]

\* DynamicIndexWriter::add_chunk behind dynamic_writer_append_chunk
\* (specification 4.3): end offsets are strictly increasing.
DynamicAppendError(w, offset, size) ==
    IF offset + size <= w.end THEN "got strange chunk offset" ELSE ""

\* FixedIndexWriter::add_chunk behind fixed_writer_append_chunk
\* (specification 4.3): the offset is a multiple of chunk_size, inside the
\* file, and no slot is written twice.
FixedAppendError(w, offset) ==
    CASE offset % chunk_size # 0 -> "got unaligned chunk offset"
      [] (offset \div chunk_size) + 1 > Len(w.data) -> "chunk index out of range"
      [] w.data[(offset \div chunk_size) + 1] # 0 -> "slot written twice"
      [] OTHER -> ""

\* BackupEnvironment::dynamic_writer_append_chunk / fixed_writer_append_chunk
\* on the writer list ws: the error, "" when the chunk is added.
WriterAppendError(s, kind, wid, ws, offset, size) ==
    CASE ensure_unfinished(s) # "" -> ensure_unfinished(s)
      [] ~WriterOpen(s, kind, wid) -> "writer not registered"
      [] kind = "dynamic" -> DynamicAppendError(ws[wid], offset, size)
      [] OTHER -> FixedAppendError(ws[wid], offset)

\* The writer after the chunk has been added.
WriterAppend(w, offset, size, digest) ==
    IF w.kind = "dynamic"
    THEN [w EXCEPT !.data = Append(@, digest), !.count = @ + 1,
                   !.size = @ + size, !.end = offset + size]
    ELSE [w EXCEPT !.data[(offset \div chunk_size) + 1] = digest,
                   !.count = @ + 1, !.size = @ + size]

\* BackupEnvironment::lookup_chunk: the registered size, 0 for None.
lookup_chunk(known, digest) == IF digest \in known THEN PayloadSize(digest) ELSE 0

\* The for loop of dynamic_append / fixed_append from entry i on, over the
\* writer list ws and the registry known: the writers it leaves behind and
\* the error it stops with.
RECURSIVE AppendLoop(_, _, _, _, _, _, _, _)
AppendLoop(s, kind, wid, ws, known, digest_list, offset_list, i) ==
    IF i > Len(digest_list) THEN [writers |-> ws, err |-> "", digest |-> 0]
    ELSE
      LET digest == digest_list[i]
          offset == offset_list[i]
          size == lookup_chunk(known, digest)
          werr == WriterAppendError(s, kind, wid, ws, offset, size)
      IN  IF size = 0
          THEN [writers |-> ws, err |-> "no such chunk", digest |-> digest]
          ELSE IF werr # ""
          THEN [writers |-> ws, err |-> werr, digest |-> 0]
          ELSE AppendLoop(s, kind, wid,
                          [ws EXCEPT ![wid] = WriterAppend(@, offset, size, digest)],
                          known, digest_list, offset_list, i + 1)

\* Faulty variant of AppendResult: every digest counts as registered.
AppendResultAnyChunk(s, kind, wid, digest_list, offset_list) ==
    IF Len(offset_list) # Len(digest_list)
    THEN [writers |-> env[s].writers,
          err |-> "offset list has wrong length", digest |-> 0]
    ELSE AppendLoop(s, kind, wid, env[s].writers, Digests,
                    digest_list, offset_list, 1)

\* Faulty variant of AppendResult: a request that fails appends nothing.
AppendResultAtomic(s, kind, wid, digest_list, offset_list) ==
    LET out == IF Len(offset_list) # Len(digest_list)
               THEN [writers |-> env[s].writers,
                     err |-> "offset list has wrong length", digest |-> 0]
               ELSE AppendLoop(s, kind, wid, env[s].writers, env[s].known_chunks,
                               digest_list, offset_list, 1)
    IN  IF out.err = "" THEN out ELSE [out EXCEPT !.writers = env[s].writers]

\* What dynamic_append / fixed_append leave behind: the writers, the error
\* ("" for Ok) and the digest a "no such chunk" error names.
AppendResult(s, kind, wid, digest_list, offset_list) ==
    IF Len(offset_list) # Len(digest_list)
    THEN [writers |-> env[s].writers,
          err |-> "offset list has wrong length", digest |-> 0]
    ELSE AppendLoop(s, kind, wid, env[s].writers, env[s].known_chunks,
                    digest_list, offset_list, 1)

\* dynamic_append (kind = "dynamic") and fixed_append (kind = "fixed").
append(s, kind, wid, digest_list, offset_list) ==
    LET out == AppendResult(s, kind, wid, digest_list, offset_list) IN
    /\ Serving(s)
    /\ \A w \in 1..Len(out.writers) : Len(out.writers[w].data) <= MaxIndexLen
    /\ env' = [env EXCEPT ![s].writers = out.writers]
    /\ UNCHANGED <<owner, snaps, commits, group_lock, snap_lock, task,
                   uploads, acked, chunks, now, gc, chunk_file, verifyVars, serverVars>>

\* --------------------------------------------------------- create index
\* BackupEnvironment::register_dynamic_writer / register_fixed_writer
\* (specification 4.5): the next writer id is allocated.
register_writer(s, w) == [env EXCEPT ![s].writers = Append(@, w)]

\* The error create_dynamic_index returns, "" for Ok(wid).
CreateDynamicError(s, name) ==
    IF ~IsSuffix(".didx", name) THEN "wrong archive extension"
    ELSE ensure_unfinished(s)

create_dynamic_index(s, name) ==
    LET err == CreateDynamicError(s, name) IN
    /\ Serving(s)
    /\ Len(env[s].writers) < MaxWriters
    /\ env' = IF err = ""
              THEN register_writer(s, NewWriter("dynamic", name, <<>>, FALSE))
              ELSE env
    /\ UNCHANGED <<owner, snaps, commits, group_lock, snap_lock, task,
                   uploads, acked, chunks, now, gc, chunk_file, verifyVars, serverVars>>

\* The closed index of that name in the previous snapshot: <<TRUE, data>>,
\* or <<FALSE, <<>> >> when open_fixed_reader fails.
PreviousIndex(s, name) ==
    LET dir == snaps[<<env[s].group, env[s].last_backup>>] IN
    IF env[s].last_backup # NoTime /\ name \in DOMAIN dir.index
    THEN <<TRUE, dir.index[name]>> ELSE <<FALSE, <<>> >>

\* Faulty variant of ReuseError: a reuse-csum that does not match the
\* previous index is let through.
ReuseErrorNoCsum(s, name, reuse_csum) ==
    CASE ~IsSuffix(".fidx", name) -> "wrong archive extension"
      [] reuse_csum = <<>> -> ""
      [] env[s].last_backup = NoTime ->
            "cannot reuse index - no previous backup exists"
      [] ~PreviousIndex(s, name)[1] ->
            "cannot reuse index - no previous backup exists for archive"
      [] OTHER -> ""

\* The error create_fixed_index bails with before it creates the writer.
\* reuse_csum is <<>> when the parameter is absent, else <<csum>>.
ReuseError(s, name, reuse_csum) ==
    CASE ~IsSuffix(".fidx", name) -> "wrong archive extension"
      [] reuse_csum = <<>> -> ""
      [] env[s].last_backup = NoTime ->
            "cannot reuse index - no previous backup exists"
      [] ~PreviousIndex(s, name)[1] ->
            "cannot reuse index - no previous backup exists for archive"
      [] compute_csum(PreviousIndex(s, name)[2]) # reuse_csum[1] ->
            "expected csum doesn't match last backup's, cannot do incremental backup"
      [] OTHER -> ""

\* FixedIndexWriter::clone_data_from (specification 4.3): the digests of the
\* reader are copied; the two indices must have the same number of slots.
CloneError(slots, reader) ==
    IF Len(slots) # Len(reader) THEN "clone_data_from failed - index sizes not equal"
    ELSE ""

\* The error create_fixed_index returns, "" for Ok(wid).
CreateFixedError(s, name, size, reuse_csum) ==
    LET err == ReuseError(s, name, reuse_csum) IN
    CASE err # "" -> err
      [] reuse_csum # <<>>
         /\ CloneError(EmptySlots(size), PreviousIndex(s, name)[2]) # "" ->
            CloneError(EmptySlots(size), PreviousIndex(s, name)[2])
      [] OTHER -> ensure_unfinished(s)

\* The digest list of the writer create_fixed_index registers: the one
\* cloned from the reader when reuse-csum is given, else empty slots.
FixedWriterData(s, name, size, reuse_csum) ==
    IF reuse_csum # <<>> THEN PreviousIndex(s, name)[2] ELSE EmptySlots(size)

create_fixed_index(s, name, size, reuse_csum) ==
    LET incremental == reuse_csum # <<>>
        err == CreateFixedError(s, name, size, reuse_csum)
        data == FixedWriterData(s, name, size, reuse_csum)
    IN
    /\ Serving(s)
    /\ Len(env[s].writers) < MaxWriters
    /\ env' = IF err = ""
              THEN register_writer(s, NewWriter("fixed", name, data, incremental))
              ELSE env
    /\ UNCHANGED <<owner, snaps, commits, group_lock, snap_lock, task,
                   uploads, acked, chunks, now, gc, chunk_file, verifyVars, serverVars>>

\* ------------------------------------------------------------ close index
\* Faulty variant of CloseError: the csum of the client is not compared.
CloseErrorNoCsum(s, kind, wid, chunk_count, size, csum) ==
    LET w == env[s].writers[wid] IN
    CASE kind = "dynamic" /\ (chunk_count < 1 \/ size < 1) ->
            "parameter verification errors"
      [] ensure_unfinished(s) # "" -> ensure_unfinished(s)
      [] ~WriterOpen(s, kind, wid) -> "writer not registered"
      [] ~(kind = "fixed" /\ w.incremental) /\ w.count # chunk_count ->
            "close failed - unexpected chunk count"
      [] ~(kind = "fixed" /\ w.incremental) /\ w.size # size ->
            "close failed - unexpected file size"
      [] kind = "fixed" /\ 0 \in SeqToSet(w.data) -> "close failed - missing chunks"
      [] OTHER -> ""

\* BackupEnvironment::dynamic_writer_close / fixed_writer_close
\* (specification 4.5): csum and totals must match; a fixed index must have
\* all its slots written.  The totals of an incremental fixed index are not
\* compared (the schema of close_fixed_index: "Ignored for incremental
\* backups"); the schema of close_dynamic_index wants both to be at least 1.
CloseError(s, kind, wid, chunk_count, size, csum) ==
    LET w == env[s].writers[wid] IN
    CASE kind = "dynamic" /\ (chunk_count < 1 \/ size < 1) ->
            "parameter verification errors"
      [] ensure_unfinished(s) # "" -> ensure_unfinished(s)
      [] ~WriterOpen(s, kind, wid) -> "writer not registered"
      [] ~(kind = "fixed" /\ w.incremental) /\ w.count # chunk_count ->
            "close failed - unexpected chunk count"
      [] ~(kind = "fixed" /\ w.incremental) /\ w.size # size ->
            "close failed - unexpected file size"
      [] kind = "fixed" /\ 0 \in SeqToSet(w.data) -> "close failed - missing chunks"
      [] compute_csum(w.data) # csum -> "close failed - got unexpected checksum"
      [] OTHER -> ""

\* The errors of a close that found its writer and refused its totals, its
\* slots or its csum.
CloseMismatch ==
    {"close failed - unexpected chunk count",
     "close failed - unexpected file size",
     "close failed - missing chunks",
     "close failed - got unexpected checksum"}

\* close_dynamic_index (kind = "dynamic") and close_fixed_index (kind =
\* "fixed"): the closed index becomes a file of the snapshot directory.  A
\* mismatch aborts the snapshot (specification 4.3): the writer is lost to
\* the session without having been closed.
close_index(s, kind, wid, chunk_count, size, csum) ==
    LET err == CloseError(s, kind, wid, chunk_count, size, csum)
        sn == <<env[s].group, env[s].time>>
    IN
    /\ Serving(s)
    /\ CASE err = "" ->
            /\ env' = [env EXCEPT ![s].writers[wid].closed = TRUE]
            /\ snaps' = [snaps EXCEPT ![sn].index =
                            [n \in DOMAIN @ \cup {env[s].writers[wid].name} |->
                                IF n = env[s].writers[wid].name
                                THEN env[s].writers[wid].data ELSE @[n]]]
         [] err \in CloseMismatch ->
            /\ env' = [env EXCEPT ![s].writers[wid].failed = TRUE]
            /\ snaps' = snaps
         [] OTHER -> UNCHANGED <<env, snaps>>
    /\ UNCHANGED <<owner, commits, group_lock, snap_lock, task, uploads,
                   acked, chunks, now, gc, chunk_file, verifyVars, serverVars>>

\* ------------------------------------------------------------ upload blob
\* upload_blob: the body is collected and handed to add_blob, which stores it
\* in the snapshot directory (specification 4.5).
BlobError(s, file_name, encoded_size, body_len) ==
    CASE ~IsSuffix(".blob", file_name) -> "wrong blob file extension"
      [] encoded_size # body_len -> "got blob with unexpected length"
      [] OTHER -> ensure_unfinished(s)

upload_blob(s, file_name, encoded_size, body_len) ==
    LET err == BlobError(s, file_name, encoded_size, body_len)
        sn == <<env[s].group, env[s].time>>
    IN
    /\ Serving(s)
    /\ snaps' = IF err = "" THEN [snaps EXCEPT ![sn].blobs = @ \cup {file_name}]
                ELSE snaps
    /\ UNCHANGED <<owner, commits, group_lock, snap_lock, env, task, uploads,
                   acked, chunks, now, gc, chunk_file, verifyVars, serverVars>>

\* ------------------------------------------------------ download previous
\* The digests of an index: the chunks download_previous registers.
IndexDigests(data) == SeqToSet(data) \ {0}

\* download_previous: the chunks of an index of the previous snapshot are
\* registered (register_chunk refuses after finish); then the file is sent.
DownloadError(s, archive_name) ==
    LET dir == snaps[<<env[s].group, env[s].last_backup>>] IN
    CASE env[s].last_backup = NoTime -> "no previous backup"
      [] ~IsSuffix(".blob", archive_name) /\ archive_name \notin DOMAIN dir.index ->
            "unable to open index"
      [] ~IsSuffix(".blob", archive_name)
         /\ IndexDigests(dir.index[archive_name]) # {}
         /\ ensure_unfinished(s) # "" -> ensure_unfinished(s)
      [] IsSuffix(".blob", archive_name) /\ archive_name \notin dir.blobs ->
            "unable to open file"
      [] OTHER -> ""

download_previous(s, archive_name) ==
    LET err == DownloadError(s, archive_name)
        dir == snaps[<<env[s].group, env[s].last_backup>>]
    IN
    /\ Serving(s)
    /\ env' = IF err = "" /\ ~IsSuffix(".blob", archive_name)
              THEN register_chunk(s, IndexDigests(dir.index[archive_name]))
              ELSE env
    /\ UNCHANGED <<owner, snaps, commits, group_lock, snap_lock, task,
                   uploads, acked, chunks, now, gc, chunk_file, verifyVars, serverVars>>

\* ----------------------------------------------------------------- finish
\* Faulty variant of FinishError: open writers are not looked for.
FinishErrorNoWriterCheck(s) ==
    CASE ensure_unfinished(s) # "" -> ensure_unfinished(s)
      [] ManifestName \notin snaps[<<env[s].group, env[s].time>>].blobs ->
            "backup does not contain a manifest"
      [] OTHER -> ""

\* BackupEnvironment::finish_backup (specification 4.5): every writer is
\* closed and a manifest blob is present.
FinishError(s) ==
    CASE ensure_unfinished(s) # "" -> ensure_unfinished(s)
      [] \E wid \in 1..Len(env[s].writers) : ~env[s].writers[wid].closed ->
            "found open index writer - unable to finish backup"
      [] ManifestName \notin snaps[<<env[s].group, env[s].time>>].blobs ->
            "backup does not contain a manifest"
      [] OTHER -> ""

finish_backup(s) ==
    LET err == FinishError(s) IN
    /\ Serving(s)
    /\ env' = IF err = "" THEN [env EXCEPT ![s].finished = TRUE] ELSE env
    /\ commits' = IF err = ""
                  THEN [commits EXCEPT ![env[s].group] = Append(@, env[s].time)]
                  ELSE commits
    /\ UNCHANGED <<owner, snaps, group_lock, snap_lock, task, uploads, acked,
                   chunks, now, gc, chunk_file, verifyVars, serverVars>>

\* upload_speedtest: the body is read and dropped; the response is Ok(Null)
\* whatever happened.
upload_speedtest(s) ==
    /\ Serving(s)
    /\ UNCHANGED <<owner, snaps, commits, group_lock, snap_lock, env, task,
                   uploads, acked, chunks, now, gc, chunk_file, verifyVars, serverVars>>

\* ----------------------------------------------------- garbage collection
\* Specification 4.2.  Mark: the index files found under the store when the
\* run starts are read one by one and the chunks they name are touched.
\* Sweep: once all are read, every chunk whose mtime is older than the mark
\* start minus the safety margin is deleted.
AllIndexFiles ==
    {<<sn, n>> : sn \in {x \in Snapshots : snaps[x].exists}, n \in FileNames}
    \cap {<<sn, n>> \in Snapshots \X FileNames : n \in DOMAIN snaps[sn].index}

gc_start ==
    /\ gc.phase = "idle"
    /\ gc' = [phase |-> "mark", mark_start |-> now, todo |-> AllIndexFiles]
    /\ UNCHANGED <<owner, snaps, commits, group_lock, snap_lock, env, task,
                   uploads, acked, chunks, now, chunk_file, verifyVars, serverVars>>

\* The chunk files named by an index file get the mtime now.  An index file
\* that has vanished since the listing is skipped.
MarkIndex(file) ==
    LET dir == snaps[file[1]]
        used == IF dir.exists /\ file[2] \in DOMAIN dir.index
                THEN IndexDigests(dir.index[file[2]]) ELSE {}
    IN  [d \in Digests |-> IF d \in used /\ chunks[d] # -1 THEN now ELSE chunks[d]]

gc_mark_index(file) ==
    /\ gc.phase = "mark"
    /\ file \in gc.todo
    /\ chunks' = MarkIndex(file)
    /\ chunk_file' = chunk_file
    /\ gc' = [gc EXCEPT !.todo = @ \ {file}]
    /\ UNCHANGED <<owner, snaps, commits, group_lock, snap_lock, env, task,
                   uploads, acked, now, verifyVars, serverVars>>

\* The chunk store after the sweep with the given cutoff.
Sweep(cutoff) ==
    [d \in Digests |-> IF chunks[d] # -1 /\ chunks[d] < cutoff THEN -1
                       ELSE chunks[d]]

gc_sweep ==
    /\ gc.phase = "mark"
    /\ gc.todo = {}
    /\ chunks' = Sweep(gc.mark_start - SafetyMargin)
    /\ chunk_file' = [d \in Digests |->
                        IF chunks'[d] = -1 THEN NoFile ELSE chunk_file[d]]
    /\ gc' = NoGc
    /\ UNCHANGED <<owner, snaps, commits, group_lock, snap_lock, env, task,
                   uploads, acked, now, verifyVars, serverVars>>

\* Time passes.  The safety margin is longer than any backup session
\* (specification 4.2): no session is older than the margin.
tick ==
    /\ now < MaxNow
    /\ \A s \in Sessions :
          task[s].phase = "running" => (now + 1) - env[s].start < SafetyMargin
    /\ now' = now + 1
    /\ UNCHANGED <<owner, snaps, commits, group_lock, snap_lock, env, task,
                   uploads, acked, chunks, gc, chunk_file, verifyVars, serverVars>>

\* ------------------------------------------------------------- input sets
Kinds == {"dynamic", "fixed"}
Wids == 1..MaxWriters
Offsets == 0..MaxOffset
ListLens == 0..MaxIndexLen
DigestLists == UNION {[1..n -> Digests] : n \in ListLens}
OffsetLists == UNION {[1..n -> Offsets] : n \in ListLens}
\* The lists an append request may carry: parallel lists, and one request
\* whose lists differ in length.
AppendLists ==
    {<<dl, ol>> \in DigestLists \X OffsetLists : Len(dl) = Len(ol)}
    \cup {<< <<1>>, <<>> >>}
Csums == DigestLists
PlainSizes == {chunk_size, chunk_size - 1}
FileSizes == {chunk_size, 2 * chunk_size}
\* The body a correct client sends for digest d.
GoodBody(d) == [len |-> 1, payload |-> d, crc_ok |-> TRUE]

\* ------------------------------------------------------ groups of actions
Open(S, G, U) ==
    \E s \in S, g \in G, t \in Times, b \in BOOLEAN, u \in U :
        upgrade_to_backup_protocol(s, g, t, b, u)

ConnectionEnd(S) ==
    \E s \in S, how \in {"closed", "error"} : connection_end(s, how)

Abort(S) == \E s \in S : request_abort(s)

WorkerEnd(S) ==
    \E s \in S :
        \/ \E res \in {"", "connection error", "task aborted"} :
              worker_future_end(s, res)
        \/ drop_guard(s)
        \/ log_result(s)

Forget == \E sn \in Snapshots : forget_snapshot(sn)

\* Chunk uploads with any announced values and any body.
UploadAny(S) ==
    \E s \in S, d \in Digests, size \in PlainSizes, e \in 1..MaxBodyLen,
       body \in Bodies :
        upload_chunk(s, "dynamic", 1, d, size, e, body)

\* Chunk uploads of a correct client, to any writer.
UploadGood(S) ==
    \E s \in S, kind \in Kinds, wid \in Wids, d \in Digests :
        upload_chunk(s, kind, wid, d, PayloadSize(d), 1, GoodBody(d))

UploadPoll(S) ==
    \E s \in S : \E u \in uploads[s] :
        \/ upload_poll_input(s, u)
        \/ upload_poll_error(s, u)
        \/ upload_poll_end(s, u)

CreateIndex(S) ==
    \E s \in S :
        \/ \E name \in FileNames : create_dynamic_index(s, name)
        \/ \E name \in FileNames, size \in FileSizes,
              reuse \in {<<>>} \cup {<<c>> : c \in Csums} :
              create_fixed_index(s, name, size, reuse)

AppendIndex(S) ==
    \E s \in S, kind \in Kinds, wid \in Wids, l \in AppendLists :
        append(s, kind, wid, l[1], l[2])

CloseIndex(S) ==
    \E s \in S, kind \in Kinds, wid \in Wids, n \in ListLens,
       size \in {k * chunk_size : k \in ListLens}, csum \in Csums :
        close_index(s, kind, wid, n, size, csum)

UploadBlob(S) ==
    \E s \in S, name \in FileNames, e \in 1..MaxBodyLen, l \in 1..MaxBodyLen :
        upload_blob(s, name, e, l)

DownloadPrevious(S) == \E s \in S, name \in FileNames : download_previous(s, name)

Finish(S) == \E s \in S : finish_backup(s)

Speedtest(S) == \E s \in S : upload_speedtest(s)

\* ------------------------------------------------------- specifications
\* The session protocol: one connection after the other on one group, a
\* correct client's chunk uploads, every index and file request.  The client
\* sends a request when the chunk upload before it has been answered.
One == {1}
VmGroup == {"vm/100"}
Quiet(S) == \A s \in S : uploads[s] = {}
Next ==
    \/ Open(One, VmGroup, {"u1"}) \/ ConnectionEnd(One) \/ WorkerEnd(One)
    \/ UploadPoll(One)
    \/ /\ Quiet(One)
       /\ \/ UploadGood(One)
          \/ CreateIndex(One) \/ AppendIndex(One) \/ CloseIndex(One)
          \/ UploadBlob(One) \/ DownloadPrevious(One) \/ Finish(One)
          \/ Speedtest(One)

Spec == Init /\ [][Next]_vars

\* Sessions, locks and removal: several connections on all groups by all
\* users, abort, forget; of the requests only the manifest upload and finish.
NextLock ==
    \/ Open(Sessions, Groups, Users) \/ ConnectionEnd(Sessions)
    \/ Abort(Sessions) \/ WorkerEnd(Sessions) \/ Forget
    \/ (\E s \in Sessions : upload_blob(s, ManifestName, 1, 1))
    \/ Finish(Sessions)

SpecLock == Init /\ [][NextLock]_vars

\* Chunk uploads with any announced values and bodies, one at a time, and
\* the appends that look the chunks up.
NextUpload ==
    \/ Open(One, VmGroup, {"u1"}) \/ ConnectionEnd(One) \/ WorkerEnd(One)
    \/ (Quiet(One) /\ UploadAny(One))
    \/ UploadPoll(One)
    \/ (\E s \in One : create_dynamic_index(s, "a.didx"))
    \/ (\E s \in One, d \in Digests, o \in Offsets :
            append(s, "dynamic", 1, <<d>>, <<o>>))
    \/ (\E s \in One : upload_blob(s, ManifestName, 1, 1))
    \/ Finish(One)

SpecUpload == Init /\ [][NextUpload]_vars

\* Concurrent chunk uploads of a correct client, up to MaxInflight at a time,
\* to a dynamic or a fixed index, and appends between them.
NextConcurrent ==
    \/ Open(One, VmGroup, {"u1"}) \/ ConnectionEnd(One) \/ WorkerEnd(One)
    \/ UploadGood(One) \/ UploadPoll(One)
    \/ (\E s \in One : create_dynamic_index(s, "a.didx"))
    \/ (\E s \in One : create_fixed_index(s, "a.fidx", chunk_size, <<>>))
    \/ (\E s \in One, kind \in Kinds, d \in Digests :
            append(s, kind, 1, <<d>>, <<0>>))
    \/ (\E s \in One : upload_blob(s, ManifestName, 1, 1))
    \/ Finish(One)

SpecConcurrent == Init /\ [][NextConcurrent]_vars

\* Garbage collection beside backup sessions: one connection after the other
\* on one group by a correct client that writes a dynamic index of one chunk,
\* uploaded or reused from the previous snapshot, and forgets snapshots.
Collect == gc_start \/ (\E file \in gc.todo : gc_mark_index(file)) \/ gc_sweep

NextGC ==
    \/ Open(One, VmGroup, {"u1"}) \/ WorkerEnd(One)
    \/ (\E s \in One : connection_end(s, "closed"))
    \/ (\E s \in One :
            upload_chunk(s, "dynamic", 1, 1, PayloadSize(1), 1, GoodBody(1)))
    \/ (\E s \in One : \E u \in uploads[s] :
            upload_poll_input(s, u) \/ upload_poll_end(s, u))
    \/ /\ Quiet(One)
       /\ \/ (\E s \in One : create_dynamic_index(s, "a.didx"))
          \/ (\E s \in One : append(s, "dynamic", 1, <<1>>, <<0>>))
          \/ (\E s \in One :
                  close_index(s, "dynamic", 1, 1, chunk_size, <<1>>))
          \/ (\E s \in One : upload_blob(s, ManifestName, 1, 1))
          \/ (\E s \in One : download_previous(s, "a.didx"))
          \/ Finish(One)
    \/ Forget \/ Collect \/ tick

SpecGC == Init /\ [][NextGC]_vars

\* ------------------------------------------------------------ verification
\* archive_type: the kind of a file of the manifest, by its extension.
archive_type(name) ==
    CASE IsSuffix(".fidx", name) -> "FixedIndex"
      [] IsSuffix(".didx", name) -> "DynamicIndex"
      [] IsSuffix(".blob", name) -> "Blob"
      [] OTHER -> "unknown"

\* verify_blob: the error, "" for Ok.  info.ok: size and csum of the file
\* are those the manifest records.
verify_blob(sn, info) ==
    CASE info.filename \notin snaps[sn].blobs -> "unable to load blob"
      [] ~info.ok -> "wrong index checksum"
      [] info.crypt_mode = "sign-only" -> "Invalid CryptMode for blob"
      [] OTHER -> ""

\* verify_fixed_index / verify_dynamic_index up to the call of
\* verify_index_chunks: the error, "" when the chunks are verified next.
IndexError(sn, info) ==
    CASE info.filename \notin DOMAIN snaps[sn].index -> "unable to open index"
      [] ~info.ok -> "wrong index checksum"
      [] OTHER -> ""

\* The error of the try_block around one file of the manifest before any
\* chunk is looked at; "chunks" when verify_index_chunks is entered.
FileError(sn, info) ==
    CASE archive_type(info.filename) = "unknown" -> "unknown archive type"
      [] archive_type(info.filename) = "Blob" -> verify_blob(sn, info)
      [] IndexError(sn, info) # "" -> IndexError(sn, info)
      [] OTHER -> "chunks"

\* lock_dir_noblock_shared (specification 4.4): a shared flock taken without
\* blocking; it is granted unless somebody holds the lock exclusively.
lock_dir_noblock_shared(holders) == holders \subseteq {Verifier}

\* DataStore::load_chunk (specification 4.2): the file is read.
load_chunk(d) == chunk_file[d] # NoFile /\ chunk_file[d].readable

\* The counter rename_corrupted_chunk chooses while <digest>.0.bad up to
\* <digest>.<n-1>.bad exist: the loop stops at the first free name or at
\* MaxBadCounter.
BadName(n) == IF n <= MaxBadCounter THEN n ELSE MaxBadCounter

\* The number of <digest>.<n>.bad files once one more chunk is renamed: the
\* counter n stops at the first free name or at MaxBadCounter, whose file is
\* then overwritten.
NextBadFiles(n) == IF n <= MaxBadCounter THEN n + 1 ELSE n

\* rename_corrupted_chunk: the chunk file is renamed to <digest>.<n>.bad; a
\* missing chunk file is ignored.
rename_corrupted_chunk(d) ==
    IF chunk_file[d] = NoFile
    THEN UNCHANGED <<chunk_file, chunks, bad_files>>
    ELSE /\ chunk_file' = [chunk_file EXCEPT ![d] = NoFile]
         /\ chunks' = [chunks EXCEPT ![d] = -1]
         /\ bad_files' = [bad_files EXCEPT ![d] = NextBadFiles(@)]

\* The snapshots verify_all_backups goes through: those of every group but
\* host/benchmark, group by group, the newest first.
RECURSIVE NewestFirst(_, _)
NewestFirst(g, t) ==
    IF t = 0 THEN <<>>
    ELSE (IF snaps[<<g, t>>].exists THEN << <<g, t>> >> ELSE <<>>)
         \o NewestFirst(g, t - 1)

\* verify_all_backups up to the first group: the chunk sets start empty.
verify_all_backups ==
    /\ verify.phase = "idle"
    /\ verify' = [NoVerify EXCEPT !.phase = "list",
                                  !.list = NewestFirst("vm/100", MaxBackupTime)]
    /\ UNCHANGED serverVars
    /\ UNCHANGED <<owner, snaps, commits, group_lock, snap_lock, env, task,
                   uploads, acked, chunks, now, gc, chunk_file, bad_files,
                   manifest>>

\* Faulty variant of VerifyDirStart: the snapshot is verified whether or not
\* the lock is granted.
VerifyDirStartNoLock(sn, accept) ==
    CASE ~manifest[sn].loadable -> "no manifest"
      [] ~accept -> "filtered"
      [] OTHER -> "verify"

\* What verify_backup_dir does with the next snapshot before any file is
\* checked: "skipped" when the lock is not granted, "no manifest" when the
\* manifest cannot be loaded, "filtered" when the filter rejects it, else
\* "verify".  accept: what the caller's filter says of the manifest.
VerifyDirStart(sn, accept) ==
    CASE ~lock_dir_noblock_shared(snap_lock[sn]) -> "skipped"
      [] ~manifest[sn].loadable -> "no manifest"
      [] ~accept -> "filtered"
      [] OTHER -> "verify"

\* verify_backup_dir and verify_backup_dir_with_lock up to the loop over the
\* files of the manifest.
verify_backup_dir(accept) ==
    LET sn == Head(verify.list)
        start == VerifyDirStart(sn, accept)
    IN
    /\ verify.phase = "list"
    /\ verify.list # <<>>
    /\ IF start = "verify"
       THEN /\ snap_lock' = [snap_lock EXCEPT ![sn] = @ \cup {Verifier}]
            /\ verify' = [verify EXCEPT !.phase = "files", !.sn = sn,
                                        !.file = 1, !.error_count = 0]
       ELSE /\ snap_lock' = snap_lock
            /\ verify' = [verify EXCEPT !.list = Tail(@),
                                        !.results[sn] = start]
    /\ UNCHANGED serverVars
    /\ UNCHANGED <<owner, snaps, commits, group_lock, env, task, uploads,
                   acked, chunks, now, gc, chunk_file, bad_files, manifest>>

\* One round of the loop over manifest.files(): a blob is verified, an index
\* is opened and checked against the manifest; an error fails the file.
verify_file ==
    LET sn == verify.sn
        info == manifest[sn].files[verify.file]
        err == FileError(sn, info)
    IN
    /\ verify.phase = "files"
    /\ verify.file <= Len(manifest[sn].files)
    /\ verify' =
         CASE err = "chunks" ->
                [verify EXCEPT !.phase = "chunks", !.pos = 1, !.errors = 0]
           [] err = "" -> [verify EXCEPT !.file = @ + 1]
           [] OTHER -> [verify EXCEPT !.file = @ + 1, !.error_count = @ + 1]
    /\ UNCHANGED serverVars
    /\ UNCHANGED <<owner, snaps, commits, group_lock, snap_lock, env, task,
                   uploads, acked, chunks, now, gc, chunk_file, bad_files,
                   manifest>>

\* One round of the for loop of verify_index_chunks: a verified chunk is
\* passed over, a chunk marked corrupt is counted, a chunk that cannot be
\* loaded is marked corrupt, counted and renamed, a loaded chunk is sent to
\* the decoder pool.
verify_index_chunk ==
    LET sn == verify.sn
        info == manifest[sn].files[verify.file]
        index == snaps[sn].index[info.filename]
        digest == index[verify.pos]
    IN
    /\ verify.phase = "chunks"
    /\ verify.pos <= Len(index)
    /\ CASE digest \in verify.verified ->
              /\ verify' = [verify EXCEPT !.pos = @ + 1]
              /\ UNCHANGED <<chunk_file, chunks, bad_files>>
         [] digest \in verify.corrupt ->
              /\ verify' = [verify EXCEPT !.pos = @ + 1, !.errors = @ + 1]
              /\ UNCHANGED <<chunk_file, chunks, bad_files>>
         [] ~load_chunk(digest) ->
              /\ verify' = [verify EXCEPT !.pos = @ + 1, !.errors = @ + 1,
                                          !.corrupt = @ \cup {digest}]
              /\ rename_corrupted_chunk(digest)
         [] OTHER ->
              /\ verify' = [verify EXCEPT
                              !.pos = @ + 1,
                              !.pool = Append(@, [chunk |-> chunk_file[digest],
                                                  digest |-> digest,
                                                  size |-> PayloadSize(digest)])]
              /\ UNCHANGED <<chunk_file, chunks, bad_files>>
    /\ UNCHANGED serverVars
    /\ UNCHANGED <<owner, snaps, commits, group_lock, snap_lock, env, task,
                   uploads, acked, now, gc, manifest>>

\* DataBlob::verify_unencrypted of a loaded chunk against the digest and the
\* size the index gives.
ChunkVerifyError(job) ==
    verify_unencrypted([body |-> [crc_ok |-> job.chunk.crc_ok,
                                  payload |-> job.chunk.payload],
                        digest |-> job.digest, size |-> job.size])

\* Faulty variant of DecodeOutcome: a chunk that fails verify_unencrypted is
\* counted but neither marked corrupt nor renamed.
DecodeOutcomeNoQuarantine(job, crypt_mode) ==
    CASE job.chunk.mode = "unknown" ->
            [corrupt |-> TRUE, errors |-> 1, rename |-> FALSE]
      [] OTHER ->
            [corrupt |-> FALSE, rename |-> FALSE,
             errors |-> IF job.chunk.mode # crypt_mode
                           \/ ChunkVerifyError(job) # "" THEN 1 ELSE 0]

\* What a decoder thread finds for a chunk of an index with the given crypt
\* mode.  corrupt: the digest enters corrupt_chunks (else verified_chunks,
\* unless the crypt mode is unknown); errors: what it adds to the error
\* counter; rename: the chunk file is renamed.
DecodeOutcome(job, crypt_mode) ==
    CASE job.chunk.mode = "unknown" ->
            [corrupt |-> TRUE, errors |-> 1, rename |-> FALSE]
      [] ChunkVerifyError(job) # "" ->
            [corrupt |-> TRUE, rename |-> TRUE,
             errors |-> IF job.chunk.mode # crypt_mode THEN 2 ELSE 1]
      [] OTHER ->
            [corrupt |-> FALSE, rename |-> FALSE,
             errors |-> IF job.chunk.mode # crypt_mode THEN 1 ELSE 0]

\* The closure of the decoder pool on the i-th chunk waiting in it.  The pool
\* works its queue off also when the loop has been left on abort.
decode_chunk(i) ==
    LET job == verify.pool[i]
        info == manifest[verify.sn].files[verify.file]
        out == DecodeOutcome(job, info.crypt_mode)
    IN
    /\ verify.phase \in {"chunks", "aborted"}
    /\ i \in 1..Len(verify.pool)
    /\ verify' = [verify EXCEPT
                    !.pool = SubSeq(@, 1, i - 1) \o SubSeq(@, i + 1, Len(@)),
                    !.errors = @ + out.errors,
                    !.corrupt = IF out.corrupt THEN @ \cup {job.digest} ELSE @,
                    !.verified = IF out.corrupt THEN @ ELSE @ \cup {job.digest}]
    /\ IF out.rename THEN rename_corrupted_chunk(job.digest)
       ELSE UNCHANGED <<chunk_file, chunks, bad_files>>
    /\ UNCHANGED serverVars
    /\ UNCHANGED <<owner, snaps, commits, group_lock, snap_lock, env, task,
                   uploads, acked, now, gc, manifest>>

\* The end of verify_index_chunks: decoder_pool.complete() has waited for the
\* pool; any counted error fails the file.
verify_index_end ==
    LET sn == verify.sn
        info == manifest[sn].files[verify.file]
        index == snaps[sn].index[info.filename]
    IN
    /\ verify.phase = "chunks"
    /\ verify.pos > Len(index)
    /\ verify.pool = <<>>
    /\ verify' = [verify EXCEPT
                    !.phase = "files", !.file = @ + 1,
                    !.error_count = IF verify.errors > 0 THEN @ + 1 ELSE @]
    /\ UNCHANGED serverVars
    /\ UNCHANGED <<owner, snaps, commits, group_lock, snap_lock, env, task,
                   uploads, acked, chunks, now, gc, chunk_file, bad_files,
                   manifest>>

\* The verify state of an error count.
VerifyState(error_count) == IF error_count > 0 THEN "failed" ELSE "ok"

\* Faulty variant of VerifyReturn: the call returns Ok(true) whatever the
\* error count.
VerifyReturnAlwaysOk(error_count) == "ok"

\* What verify_backup_dir_with_lock returns after the loop: Ok(true) as
\* "ok", Ok(false) as "failed".
VerifyReturn(error_count) == IF error_count = 0 THEN "ok" ELSE "failed"

\* The end of verify_backup_dir_with_lock: the verify state goes into the
\* unprotected part of the manifest and the lock is dropped.
verify_dir_end ==
    LET sn == verify.sn IN
    /\ verify.phase = "files"
    /\ verify.file > Len(manifest[sn].files)
    /\ manifest' = [manifest EXCEPT
                      ![sn].verify_state = VerifyState(verify.error_count),
                      ![sn].upid = VerifyUpid]
    /\ snap_lock' = [snap_lock EXCEPT ![sn] = @ \ {Verifier}]
    /\ verify' = [verify EXCEPT
                    !.phase = "list", !.list = Tail(@),
                    !.results[sn] = VerifyReturn(verify.error_count)]
    /\ UNCHANGED serverVars
    /\ UNCHANGED <<owner, snaps, commits, group_lock, env, task, uploads,
                   acked, chunks, now, gc, chunk_file, bad_files>>

\* The end of verify_all_backups.
verify_all_end ==
    /\ verify.phase = "list"
    /\ verify.list = <<>>
    /\ verify' = [verify EXCEPT !.phase = "done"]
    /\ UNCHANGED serverVars
    /\ UNCHANGED <<owner, snaps, commits, group_lock, snap_lock, env, task,
                   uploads, acked, chunks, now, gc, chunk_file, bad_files,
                   manifest>>

\* worker.check_abort() after a file or before a chunk fails: the run ends
\* with the error and the lock is dropped.
verify_abort ==
    /\ verify.phase \in {"files", "chunks"}
    /\ snap_lock' = [snap_lock EXCEPT ![verify.sn] = @ \ {Verifier}]
    /\ verify' = [verify EXCEPT !.phase = "aborted"]
    /\ UNCHANGED serverVars
    /\ UNCHANGED <<owner, snaps, commits, group_lock, env, task, uploads,
                   acked, chunks, now, gc, chunk_file, bad_files, manifest>>

\* Verification of a datastore at rest: no backup session runs, the chunk
\* files and the snapshot directories are what earlier sessions, bit rot and
\* earlier quarantines have left, and a snapshot may be locked by another
\* operation.
GoodChunk(d, mode) ==
    [payload |-> d, crc_ok |-> TRUE, mode |-> mode, readable |-> TRUE]

\* The states of the chunk file of digest d: the first digest in every state,
\* the others missing, good or with a payload of another digest.
ChunkFiles(d) ==
    {NoFile, GoodChunk(d, "none"),
     [GoodChunk(d, "none") EXCEPT !.payload = (d % NumDigests) + 1]}
    \cup (IF d # 1 THEN {}
          ELSE {GoodChunk(d, "encrypt"),
                [GoodChunk(d, "none") EXCEPT !.crc_ok = FALSE],
                [GoodChunk(d, "none") EXCEPT !.mode = "unknown"],
                [GoodChunk(d, "none") EXCEPT !.readable = FALSE]})

FileInfo(filename, ok, crypt_mode) ==
    [filename |-> filename, ok |-> ok, crypt_mode |-> crypt_mode]

\* The file lists of a manifest, all files with one crypt mode.
ManifestFiles(mode) ==
    {<<FileInfo("a.didx", TRUE, mode)>>,
     <<FileInfo("a.didx", TRUE, mode), FileInfo("a.fidx", TRUE, mode)>>,
     <<FileInfo("c.blob", FALSE, mode), FileInfo("a.didx", TRUE, mode)>>,
     <<FileInfo("a.didx", FALSE, mode), FileInfo("a.fidx", TRUE, mode)>>}

\* A committed snapshot: its directory and its manifest.  Both indices hold
\* the same digest list.
SnapshotOf(files, loadable, index) ==
    [dir |-> [exists |-> TRUE, blobs |-> {ManifestName, "c.blob"},
              index |-> [n \in {"a.didx", "a.fidx"} |-> index]],
     manifest |-> [NoManifest EXCEPT !.loadable = loadable, !.files = files]]

NoSnapshot == [dir |-> NoDir, manifest |-> NoManifest]

\* The snapshots at backup time t: the newest in every shape, the older ones
\* missing or with one dynamic index.
SnapshotsAt(t) ==
    IF t = MaxBackupTime
    THEN {NoSnapshot}
         \cup {SnapshotOf(files, TRUE, index) :
                 files \in ManifestFiles("none") \cup ManifestFiles("encrypt"),
                 index \in {<<1>>, <<1, NumDigests>>, <<NumDigests, 1>>}}
         \cup {SnapshotOf(<<FileInfo("a.didx", TRUE, "none")>>, FALSE, <<1>>)}
    ELSE {NoSnapshot}
         \cup {SnapshotOf(<<FileInfo("a.didx", TRUE, mode)>>, TRUE, index) :
                 mode \in {"none", "encrypt"},
                 index \in {<<1>>, <<1, NumDigests>>}}

InitVerify ==
    \E store \in [Times -> UNION {SnapshotsAt(t) : t \in Times}] :
        /\ \A t \in Times : store[t] \in SnapshotsAt(t)
        /\ snaps = [sn \in Snapshots |->
                      IF sn[1] = "vm/100" THEN store[sn[2]].dir ELSE NoDir]
        /\ manifest = [sn \in Snapshots |->
                         IF sn[1] = "vm/100" THEN store[sn[2]].manifest
                         ELSE NoManifest]
        /\ commits = [g \in Groups |->
                        IF g = "vm/100"
                        THEN SelectSeq([t \in Times |-> t],
                                       LAMBDA t : store[t].dir.exists)
                        ELSE <<>>]
        /\ owner = [g \in Groups |->
                      IF g = "vm/100" /\ \E t \in Times : store[t].dir.exists
                      THEN "u1" ELSE NoUser]
        /\ snap_lock \in {l \in [Snapshots -> {{}, {1}}] :
                            \A sn \in Snapshots :
                               l[sn] # {} => sn[1] = "vm/100"
                                             /\ store[sn[2]].dir.exists}
        /\ chunk_file \in {f \in [Digests ->
                                    UNION {ChunkFiles(d) : d \in Digests}] :
                             \A d \in Digests : f[d] \in ChunkFiles(d)}
        /\ chunks = [d \in Digests |-> IF chunk_file[d] = NoFile THEN -1 ELSE 0]
        /\ group_lock = [g \in Groups |-> {}]
        /\ env = [s \in Sessions |-> NoEnv]
        /\ task = [s \in Sessions |-> NoTask]
        /\ uploads = [s \in Sessions |-> {}]
        /\ acked = [s \in Sessions |-> {}]
        /\ now = 0
        /\ gc = NoGc
        /\ bad_files = [d \in Digests |-> 0]
        /\ verify = NoVerify
        /\ wt = NoWorkerTask
        /\ tl = NoTaskList
        /\ blobr = NoBlobReader
        /\ catalog = NoCatalog
        /\ srv = NoServer
        /\ rrd = NoRrd

NextVerify ==
    \/ verify_all_backups
    \/ (\E accept \in BOOLEAN : verify_backup_dir(accept))
    \/ verify_file \/ verify_index_chunk
    \/ (\E i \in 1..MaxIndexLen : decode_chunk(i))
    \/ verify_index_end \/ verify_dir_end \/ verify_all_end \/ verify_abort

SpecVerify == InitVerify /\ [][NextVerify]_vars

\* Verification of a datastore that has quarantined chunks before: a chunk
\* that was renamed can be uploaded again (its file is missing, so the insert
\* writes it), be damaged again and be renamed again, so any number of
\* <digest>.<n>.bad files up to MaxBadCounter + 1 lies beside a chunk.  One
\* snapshot with one dynamic index.
InitQuarantine ==
    \E index \in {<<1>>, <<1, NumDigests>>} :
        LET s == SnapshotOf(<<FileInfo("a.didx", TRUE, "none")>>, TRUE, index)
            last == <<"vm/100", MaxBackupTime>>
        IN  /\ snaps = [sn \in Snapshots |-> IF sn = last THEN s.dir ELSE NoDir]
            /\ manifest = [sn \in Snapshots |->
                             IF sn = last THEN s.manifest ELSE NoManifest]
            /\ commits = [g \in Groups |->
                            IF g = "vm/100" THEN <<MaxBackupTime>> ELSE <<>>]
            /\ owner = [g \in Groups |->
                          IF g = "vm/100" THEN "u1" ELSE NoUser]
            /\ snap_lock = [sn \in Snapshots |-> {}]
            /\ chunk_file \in {f \in [Digests ->
                                        UNION {ChunkFiles(d) : d \in Digests}] :
                                 \A d \in Digests : f[d] \in ChunkFiles(d)}
            /\ chunks = [d \in Digests |->
                           IF chunk_file[d] = NoFile THEN -1 ELSE 0]
            /\ group_lock = [g \in Groups |-> {}]
            /\ env = [s2 \in Sessions |-> NoEnv]
            /\ task = [s2 \in Sessions |-> NoTask]
            /\ uploads = [s2 \in Sessions |-> {}]
            /\ acked = [s2 \in Sessions |-> {}]
            /\ now = 0
            /\ gc = NoGc
            /\ bad_files \in [Digests -> {0, 1, MaxBadCounter, MaxBadCounter + 1}]
            /\ verify = NoVerify
            /\ wt = NoWorkerTask
            /\ tl = NoTaskList
            /\ blobr = NoBlobReader
            /\ catalog = NoCatalog
            /\ srv = NoServer
            /\ rrd = NoRrd

SpecQuarantine == InitQuarantine /\ [][NextVerify]_vars

\* Abort beside chunk uploads: one connection after the other by a correct
\* client that uploads chunks, the manifest and finishes, and task abort at
\* any moment.  The runtime polls a woken worker future and runs what follows
\* its completion: the end of the worker is weakly fair.
NextAbort ==
    \/ Open(One, Groups, {"u1"}) \/ ConnectionEnd(One) \/ Abort(One)
    \/ WorkerEnd(One)
    \/ (\E s \in One : create_dynamic_index(s, "a.didx"))
    \/ (\E s \in One :
            upload_chunk(s, "dynamic", 1, 1, PayloadSize(1), 1, GoodBody(1)))
    \/ UploadPoll(One)
    \/ (\E s \in One : upload_blob(s, ManifestName, 1, 1))
    \/ Finish(One)

SpecAbort == Init /\ [][NextAbort]_vars /\ WF_vars(WorkerEnd(One))

\* ------------------------------------------------- WorkerTask: abort
\* request_abort and abort_future of one WorkerTask, called from several
\* threads and interleaved at the atomic flag and at the mutex around
\* WorkerTaskData.  Everything else stays as it is.
Threads == 1..NumThreads

WtStep(next) ==
    /\ wt' = next
    /\ UNCHANGED <<tl, rrd, blobr, catalog, srv>>
    /\ UNCHANGED <<owner, snaps, commits, group_lock, snap_lock, env, task,
                   uploads, acked, chunks, now, gc, chunk_file, verifyVars>>

\* request_abort, line 811: the flag is stored.
request_abort_store(t) ==
    /\ wt.pc[t] = "idle"
    /\ wt.calls < MaxCalls
    /\ WtStep([wt EXCEPT !.abort_requested = TRUE, !.calls = @ + 1,
                         !.pc[t] = "ra_lock"])

\* request_abort, line 813: self.data.lock().
request_abort_lock(t) ==
    /\ wt.pc[t] = "ra_lock"
    /\ wt.mutex = 0
    /\ WtStep([wt EXCEPT !.mutex = t, !.pc[t] = "ra_pop"])

\* Faulty variant of NotifyDone: the loop ends after the first pass.
NotifyDoneAtOnce(listeners) == TRUE

\* request_abort, line 816: pop() returns None and the loop ends.
NotifyDone(listeners) == listeners = <<>>

\* request_abort, lines 814-821: one pass of the loop; leaving it drops the
\* guard.
request_abort_pop(t) ==
    /\ wt.pc[t] = "ra_pop"
    /\ IF NotifyDone(wt.abort_listeners)
       THEN WtStep([wt EXCEPT !.mutex = 0, !.pc[t] = "idle"])
       ELSE WtStep([wt EXCEPT
                      !.chan[Last(wt.abort_listeners)] = "woken",
                      !.abort_listeners =
                          SubSeq(@, 1, Len(wt.abort_listeners) - 1)])

\* abort_future, line 837: the channel is made.
abort_future_channel(t) ==
    /\ wt.pc[t] = "idle"
    /\ wt.calls < MaxCalls
    /\ WtStep([wt EXCEPT !.calls = @ + 1, !.cur[t] = wt.calls + 1,
                         !.chan[wt.calls + 1] = "new", !.pc[t] = "af_lock"])

\* abort_future, line 839: self.data.lock().
abort_future_lock(t) ==
    /\ wt.pc[t] = "af_lock"
    /\ wt.mutex = 0
    /\ WtStep([wt EXCEPT !.mutex = t, !.pc[t] = "af_load"])

\* abort_future, line 840: the flag is loaded, the lock held.
abort_future_load(t) ==
    /\ wt.pc[t] = "af_load"
    /\ WtStep([wt EXCEPT !.seen[t] = wt.abort_requested, !.pc[t] = "af_send"])

\* abort_future, lines 840-845: the sender is used at once or pushed to the
\* listeners; returning drops the guard.
abort_future_send(t) ==
    /\ wt.pc[t] = "af_send"
    /\ IF wt.seen[t]
       THEN WtStep([wt EXCEPT !.chan[wt.cur[t]] = "ready", !.mutex = 0,
                             !.pc[t] = "idle"])
       ELSE WtStep([wt EXCEPT !.chan[wt.cur[t]] = "listening",
                             !.abort_listeners = Append(@, wt.cur[t]),
                             !.mutex = 0, !.pc[t] = "idle"])

\* What a thread does once it is inside a call: a running thread goes on.
ThreadStep(t) ==
    \/ request_abort_lock(t) \/ request_abort_pop(t)
    \/ abort_future_lock(t) \/ abort_future_load(t) \/ abort_future_send(t)

NextAbortFuture ==
    \E t \in Threads :
        \/ request_abort_store(t) \/ abort_future_channel(t)
        \/ request_abort_lock(t) \/ request_abort_pop(t)
        \/ abort_future_lock(t) \/ abort_future_load(t)
        \/ abort_future_send(t)

SpecAbortFuture ==
    Init /\ [][NextAbortFuture]_vars /\ \A t \in Threads : WF_vars(ThreadStep(t))

\* ------------------------------------------------- task state and log
\* Text is a sequence of pieces: a piece is a word the parsers look for, a
\* line feed, a time stamp, a number, or other text ("a").
RFC3339 == <<"T0", "T1", "T2">>
MaxClock == Len(RFC3339) - 1
Clock == 0..MaxClock

\* proxmox::tools::time::epoch_to_rfc3339 and parse_rfc3339; -1: no time.
epoch_to_rfc3339(time) == RFC3339[time + 1]
parse_rfc3339(str) ==
    IF \E time \in Clock : RFC3339[time + 1] = str
    THEN CHOOSE time \in Clock : RFC3339[time + 1] = str
    ELSE -1

\* u64 as text and back; -1: not a number.
ParseCount(s) ==
    IF Len(s) = 1 /\ \E n \in 0..MaxWarn : ToString(n) = s[1]
    THEN CHOOSE n \in 0..MaxWarn : ToString(n) = s[1]
    ELSE -1

\* enum TaskState, and "invalid" for a status text that does not parse.
Unknown(endtime) ==
    [kind |-> "unknown", count |-> 0, message |-> <<>>, endtime |-> endtime]
OK(endtime) ==
    [kind |-> "ok", count |-> 0, message |-> <<>>, endtime |-> endtime]
Warning(count, endtime) ==
    [kind |-> "warning", count |-> count, message |-> <<>>, endtime |-> endtime]
Error(message, endtime) ==
    [kind |-> "error", count |-> 0, message |-> message, endtime |-> endtime]
Unparsed ==
    [kind |-> "invalid", count |-> 0, message |-> <<>>, endtime |-> 0]

\* impl Display for TaskState.
Display(state) ==
    CASE state.kind = "unknown" -> <<"unknown">>
      [] state.kind = "ok" -> <<"OK">>
      [] state.kind = "warning" -> <<"WARNINGS: ", ToString(state.count)>>
      [] OTHER -> state.message

\* TaskState::result_text.
result_text(state) ==
    IF state.kind = "error" THEN <<"TASK ", "ERROR: ">> \o state.message
    ELSE <<"TASK ">> \o Display(state)

\* TaskState::from_endtime_and_message.
from_endtime_and_message(endtime, s) ==
    CASE s = <<"unknown">> -> Unknown(endtime)
      [] s = <<"OK">> -> OK(endtime)
      [] Len(s) > 0 /\ s[1] = "WARNINGS: " ->
             IF ParseCount(Tail(s)) >= 0
             THEN Warning(ParseCount(Tail(s)), endtime) ELSE Unparsed
      [] Len(s) > 0 /\ s[1] # "WARNINGS: " /\ s # <<"unknown">> /\ s # <<"OK">> ->
             Error(IF s[1] = "ERROR: " THEN Tail(s) ELSE s, endtime)
      [] OTHER -> Unparsed

\* FileLogger::log (tools/file_logger.rs, not part of the sources at hand;
\* the line format is the one upid_read_status parses): the time, ": ", the
\* message as it is and a line feed are appended.
LogLine(time, msg) == <<epoch_to_rfc3339(time), ": ">> \o msg \o <<"\n">>

\* The position after the last line feed of data, 1 without one.
RECURSIVE LastLineStart(_, _)
LastLineStart(data, pos) ==
    IF pos = 0 THEN 1
    ELSE IF data[pos] = "\n" THEN pos + 1
    ELSE LastLineStart(data, pos - 1)

\* upid_read_status on a log file that could be opened: the state in its
\* last line, Unknown at the start time without one.  (Only the last 8192
\* bytes are read; the lines of the model are shorter.)
upid_read_status(log, starttime) ==
    LET data == IF Len(log) > 0 /\ log[Len(log)] = "\n"
                THEN SubSeq(log, 1, Len(log) - 1) ELSE log
        last_line == SubSeq(data, LastLineStart(data, Len(data)), Len(data))
        endtime == IF Len(last_line) > 0 THEN parse_rfc3339(last_line[1]) ELSE -1
        rest == SubSeq(last_line, 3, Len(last_line))
        state == from_endtime_and_message(endtime, Tail(rest))
    IN  IF /\ Len(last_line) >= 3
           /\ endtime >= 0
           /\ last_line[2] = ": "
           /\ rest[1] = "TASK "
           /\ state # Unparsed
        THEN state
        ELSE Unknown(starttime)

\* ------------------------------------------------------ task list files
Upids == 1..NumTasks

\* A TaskListInfo; state NoTaskState: the task is still running.
NoTaskState == NoTaskList.task[1].state
TaskListInfo(upid, state) == [upid |-> upid, state |-> state]

\* render_task_line: the UPID alone, or the UPID, the end time and the state
\* as Display writes it.
render_task_line(info) ==
    IF info.state = NoTaskState
    THEN [upid |-> info.upid, fields |-> 1, endtime |-> 0, status |-> <<>>]
    ELSE [upid |-> info.upid, fields |-> 3, endtime |-> info.state.endtime,
          status |-> Display(info.state)]

render_task_list(list) == [i \in 1..Len(list) |-> render_task_line(list[i])]

\* parse_worker_status_line; Unparsed: the line is not a valid status line.
parse_worker_status_line(line) ==
    IF line.fields = 1 THEN NoTaskState
    ELSE from_endtime_and_message(line.endtime, line.status)

\* read_task_file: the lines that parse, in file order.
RECURSIVE read_task_file(_)
read_task_file(lines) ==
    IF lines = <<>> THEN <<>>
    ELSE (IF parse_worker_status_line(Head(lines)) = Unparsed THEN <<>>
          ELSE <<TaskListInfo(Head(lines).upid,
                              parse_worker_status_line(Head(lines)))>>)
         \o read_task_file(Tail(lines))

\* worker_is_active_local: the task is in WORKER_TASK_LIST of this process,
\* or the process that started it still runs.
worker_is_active_local(upid) == tl.task[upid].status = "running"

\* Faulty variant of StoppedStatus: the log is not read.
StoppedStatusNow(tasks, upid, clock) == Unknown(clock)

\* The status update_active_workers gives a stopped task: what
\* upid_read_status returns, Unknown at the current time when it fails
\* (the log file cannot be opened).
StoppedStatus(tasks, upid, clock) ==
    IF tasks[upid].has_log
    THEN upid_read_status(tasks[upid].log, tasks[upid].starttime)
    ELSE Unknown(clock)

\* finish_list.sort_unstable_by: ascending end time.  A list that is sorted
\* stays as it is; entries of equal end time keep their order.
RECURSIVE InsertByEndtime(_, _)
InsertByEndtime(sorted, info) ==
    IF sorted = <<>> THEN <<info>>
    ELSE IF Last(sorted).state.endtime <= info.state.endtime
         THEN Append(sorted, info)
         ELSE Append(InsertByEndtime(SubSeq(sorted, 1, Len(sorted) - 1), info),
                     Last(sorted))

RECURSIVE SortByEndtime(_)
SortByEndtime(list) ==
    IF list = <<>> THEN <<>>
    ELSE InsertByEndtime(SortByEndtime(SubSeq(list, 1, Len(list) - 1)),
                         Last(list))

\* update_active_workers on the files of f with the tasks at time clock:
\* finished and stopped entries of the active file move behind the entries of
\* the index file, new_upid (0: none) is added to the active file, and the
\* finished list is sorted and split into index and archive.
UpdateActiveWorkers(f, tasks, clock, new_upid) ==
    LET active_in == read_task_file(f.active)
        Stopped(info) == info.state = NoTaskState
                         /\ tasks[info.upid].status # "running"
        Keep(info) == info.state = NoTaskState /\ ~Stopped(info)
        Moved(info) == IF Stopped(info)
                       THEN TaskListInfo(info.upid,
                                         StoppedStatus(tasks, info.upid, clock))
                       ELSE info
        moved == SelectSeq(active_in, LAMBDA info : ~Keep(info))
        finish_list == SortByEndtime(
            read_task_file(f.index)
            \o [i \in 1..Len(moved) |-> Moved(moved[i])])
        active_list == SelectSeq(active_in, Keep)
            \o (IF new_upid = 0 THEN <<>>
                ELSE <<TaskListInfo(new_upid, NoTaskState)>>)
        start == IF Len(finish_list) > MAX_INDEX_TASKS
                 THEN Len(finish_list) - MAX_INDEX_TASKS ELSE 0
    IN  [active |-> render_task_list(active_list),
         index |-> render_task_list(
                       SubSeq(finish_list, start + 1, Len(finish_list))),
         archive |-> f.archive
                     \o render_task_list(SubSeq(finish_list, 1, start))]

TaskFiles == [active |-> tl.active, index |-> tl.index, archive |-> tl.archive]

TlStep(tasks, files, clock) ==
    /\ tl' = [task |-> tasks, active |-> files.active, index |-> files.index,
              archive |-> files.archive, clock |-> clock]
    /\ UNCHANGED <<wt, rrd, blobr, catalog, srv>>
    /\ UNCHANGED <<owner, snaps, commits, group_lock, snap_lock, env, task,
                   uploads, acked, chunks, now, gc, chunk_file, verifyVars>>

\* WorkerTask::create_state.
CreateState(result, warn_count, endtime) ==
    IF ~result.ok THEN Error(result.message, endtime)
    ELSE IF warn_count > 0 THEN Warning(warn_count, endtime)
    ELSE OK(endtime)

\* WorkerTask::new: the log file is created, the task enters
\* WORKER_TASK_LIST and update_active_workers adds it to the active file.
\* Task ids are handed out in order.
WorkerNew(u) ==
    /\ tl.task[u].status = "none"
    /\ \A v \in 1..(u - 1) : tl.task[v].status # "none"
    /\ LET tasks == [tl.task EXCEPT ![u].status = "running",
                                    ![u].starttime = tl.clock,
                                    ![u].has_log = TRUE]
       IN  TlStep(tasks, UpdateActiveWorkers(TaskFiles, tasks, tl.clock, u),
                  tl.clock)

\* WorkerTask::log.
TaskLog(u) ==
    /\ tl.task[u].status = "running"
    /\ tl.task[u].lines < MaxWarn
    /\ TlStep([tl.task EXCEPT ![u].log = @ \o LogLine(tl.clock, <<"a">>),
                              ![u].lines = @ + 1],
              TaskFiles, tl.clock)

\* WorkerTask::warn.
TaskWarn(u) ==
    /\ tl.task[u].status = "running"
    /\ tl.task[u].lines < MaxWarn
    /\ TlStep([tl.task EXCEPT
                  ![u].log = @ \o LogLine(tl.clock, <<"WARN: ", "a">>),
                  ![u].warn_count = @ + 1, ![u].lines = @ + 1],
              TaskFiles, tl.clock)

\* WorkerTask::log_result: the result text is logged, the task leaves
\* WORKER_TASK_LIST and update_active_workers runs.
LogResult(u, result) ==
    /\ tl.task[u].status = "running"
    /\ LET state == CreateState(result, tl.task[u].warn_count, tl.clock)
           tasks == [tl.task EXCEPT
                        ![u].log = @ \o LogLine(tl.clock, result_text(state)),
                        ![u].status = "ended", ![u].state = state]
       IN  TlStep(tasks, UpdateActiveWorkers(TaskFiles, tasks, tl.clock, 0),
                  tl.clock)

\* The process of a task dies before the task has ended; the log file may be
\* gone as well.
ProcessExit(u, log_kept) ==
    /\ tl.task[u].status = "running"
    /\ TlStep([tl.task EXCEPT ![u].status = "dead", ![u].has_log = log_kept],
              TaskFiles, tl.clock)

\* update_active_workers(None), as TaskListInfoIterator::new runs it.
Reconcile ==
    TlStep(tl.task, UpdateActiveWorkers(TaskFiles, tl.task, tl.clock, 0),
           tl.clock)

\* Time passes.
ClockTick ==
    /\ tl.clock < MaxClock
    /\ TlStep(tl.task, TaskFiles, tl.clock + 1)

\* What a task ends with: Ok, or an error whose message is any text of up to
\* MaxMsgLen pieces.
MsgPieces == {"a", "\n", "ERROR: "}
Messages == UNION {[1..n -> MsgPieces] : n \in 0..MaxMsgLen}
Results == {[ok |-> TRUE, message |-> <<>>]}
           \cup {[ok |-> FALSE, message |-> m] : m \in Messages}

NextTasks ==
    \/ \E u \in Upids :
          \/ WorkerNew(u) \/ TaskLog(u) \/ TaskWarn(u)
          \/ (\E result \in Results : LogResult(u, result))
          \/ (\E log_kept \in BOOLEAN : ProcessExit(u, log_kept))
    \/ Reconcile
    \/ ClockTick

SpecTasks == Init /\ [][NextTasks]_vars

\* ------------------------------------------------- round robin database
\* f64 arithmetic on the values that occur: exact, without rounding.
RECURSIVE GCD(_, _)
GCD(a, b) == IF b = 0 THEN a ELSE GCD(b, a % b)

Abs(n) == IF n < 0 THEN -n ELSE n

\* num/den for den > 0, in lowest terms.
Rat(num, den) ==
    LET g == IF num = 0 THEN den ELSE GCD(Abs(num), den)
    IN  [nan |-> FALSE, num |-> num \div g, den |-> den \div g]

RatAdd(a, b) == Rat(a.num * b.den + b.num * a.den, a.den * b.den)
RatMul(a, n) == Rat(a.num * n, a.den)
RatDiv(a, n) == Rat(a.num, a.den * n)
RatLess(a, b) == a.num * b.den < b.num * a.den

\* u64::saturating_sub.
saturating_sub(a, b) == IF a > b THEN a - b ELSE 0

\* Faulty variant of UpdateTimeError: the time of the last update is accepted again.
UpdateTimeErrorAllowsEqual(source, time) ==
    CASE time < 0 -> "got negative time"
      [] time >= 0 /\ time < source.last_update -> "time in past"
      [] OTHER -> ""

\* DataSource::compute_new_value, lines 81-86: the checks of the time.
UpdateTimeError(source, time) ==
    CASE time < 0 -> "got negative time"
      [] time >= 0 /\ time <= source.last_update -> "time in past"
      [] OTHER -> ""

\* Faulty variant of CounterError: a decrease is not detected.
CounterErrorNoReset(source, value) ==
    IF source.dst = "Counter" /\ ~source.last_value.nan /\ value < 0
    THEN "got negative value for counter"
    ELSE ""

\* DataSource::compute_new_value, lines 98-108: the checks of a counter value
\* once a last value exists.
CounterError(source, value) ==
    CASE source.dst # "Counter" \/ source.last_value.nan -> ""
      [] source.dst = "Counter" /\ ~source.last_value.nan /\ value < 0 ->
             "got negative value for counter"
      [] source.dst = "Counter" /\ ~source.last_value.nan /\ value >= 0
         /\ RatLess(Num(value), source.last_value) ->
             "conter overflow/reset detected"
      [] OTHER -> ""

\* DataSource::compute_new_value: the error, the value to record and the
\* data source afterwards.  (Values are never NAN here.)
DataSourceNewValue(source, time, value) ==
    LET err == IF UpdateTimeError(source, time) # "" THEN UpdateTimeError(source, time)
               ELSE CounterError(source, value)
        time_diff == time - source.last_update
        diff == IF source.last_value.nan THEN Num(0)
                ELSE RatAdd(Num(value), RatMul(source.last_value, -1))
    IN  [err |-> err,
         value |-> IF source.dst = "Gauge" THEN Num(value)
                   ELSE IF err = "" THEN RatDiv(diff, time_diff) ELSE NAN,
         source |-> IF err = "" \/ err = "conter overflow/reset detected"
                    THEN [source EXCEPT !.last_value = Num(value)]
                    ELSE source]

\* RRA::slot, as an index 1..len, and RRA::slot_end_time.
slot(rra, time) == ((time \div rra.resolution) % Len(rra.data)) + 1
slot_end_time(rra, time) == rra.resolution * ((time \div rra.resolution) + 1)

\* RRA::delete_old_slots, the loop from its pass number pass with t and index
\* as they are before the pass.
RECURSIVE DeleteLoop(_, _, _, _, _)
DeleteLoop(data, pass, t, index, min_time_reso) ==
    LET min_time == min_time_reso[1]
        reso == min_time_reso[2]
        t2 == t + reso
        index2 == IF index + 1 > Len(data) THEN 1 ELSE index + 1
    IN  IF pass > Len(data) \/ ~(t2 < min_time) THEN data
        ELSE DeleteLoop([data EXCEPT ![index2] = NAN], pass + 1, t2, index2,
                        min_time_reso)

\* RRA::delete_old_slots.
delete_old_slots(rra, time, last_update) ==
    LET reso == rra.resolution
        num_entries == Len(rra.data)
        min_time0 == saturating_sub(time, num_entries * reso)
        min_time == ((min_time0 \div reso) + 1) * reso
        t == saturating_sub(last_update, num_entries * reso)
    IN  [rra EXCEPT !.data = DeleteLoop(rra.data, 1, t, slot(rra, t),
                                        <<min_time, reso>>)]

\* RRA::compute_new_value.
rra_compute_new_value(rra, time, last_update, value) ==
    LET index == slot(rra, time)
        last_index == slot(rra, last_update)
        last_value == rra.data[index]
        count0 == IF (time - last_update) > rra.resolution
                     \/ index # last_index \/ last_value.nan
                  THEN 0 ELSE rra.last_count
        new_count == count0 + 1
        new_value ==
            CASE rra.cf = "Maximum" ->
                     IF RatLess(value, last_value) THEN last_value ELSE value
              [] rra.cf = "Minimum" ->
                     IF RatLess(last_value, value) THEN last_value ELSE value
              [] rra.cf = "Last" -> value
              [] OTHER -> RatAdd(RatDiv(RatMul(last_value, count0), new_count),
                                 RatDiv(value, new_count))
    IN  IF count0 = 0
        THEN [rra EXCEPT !.data[index] = value, !.last_count = 1]
        ELSE [rra EXCEPT !.data[index] = new_value, !.last_count = new_count]

\* RRA::extract_data for one slot time (start = end = t): Some(value) or
\* None, written NAN.
extract_data(rra, t, last_update) ==
    LET rrd_end == slot_end_time(rra, last_update)
        rrd_start == saturating_sub(rrd_end, rra.resolution * Len(rra.data))
    IN  IF t < rrd_start \/ t >= rrd_end THEN NAN ELSE rra.data[slot(rra, t)]

\* RRD::update: the database afterwards and what was logged.
Update(db, time, value) ==
    LET new == DataSourceNewValue(db.source, time, value)
        last_update == db.source.last_update
    IN  IF new.err # ""
        THEN [db |-> [db EXCEPT !.source = new.source], err |-> new.err]
        ELSE [db |-> [source |-> [new.source EXCEPT !.last_update = time],
                      rra_list |->
                          [i \in 1..Len(db.rra_list) |->
                              rra_compute_new_value(
                                  delete_old_slots(db.rra_list[i], time,
                                                   last_update),
                                  time, last_update, new.value)]],
              err |-> ""]

RrdStep(next) ==
    /\ rrd' = next
    /\ UNCHANGED <<wt, tl, blobr, catalog, srv>>
    /\ UNCHANGED <<owner, snaps, commits, group_lock, snap_lock, env, task,
                   uploads, acked, chunks, now, gc, chunk_file, verifyVars>>

\* rrd.update(time, value) by the owner of the database.
update(time, value) ==
    LET out == Update(rrd.db, time, value)
    IN  RrdStep([db |-> out.db,
                 accepted |-> IF out.err = "" THEN Append(rrd.accepted,
                                  [time |-> time, value |-> value])
                              ELSE rrd.accepted,
                 result |-> out.err])

\* The inputs of update and the databases made: one data source and two
\* archives of different consolidation, resolution and size.
RrdTimes == -1..MaxRrdTime
RrdValues == -1..MaxValue
RraLists ==
    {<<RRA("Average", RrdResolution, RrdSlots), RRA("Maximum", 1, RrdSlots + 1)>>,
     <<RRA("Minimum", RrdResolution, RrdSlots), RRA("Last", 1, RrdSlots + 1)>>}

InitRrd ==
    \E dst \in {"Gauge", "Derive", "Counter"}, rra_list \in RraLists :
        /\ rrd = [NoRrd EXCEPT !.db = RRD(dst, rra_list)]
        /\ owner = [g \in Groups |-> NoUser]
        /\ snaps = [sn \in Snapshots |-> NoDir]
        /\ commits = [g \in Groups |-> <<>>]
        /\ group_lock = [g \in Groups |-> {}]
        /\ snap_lock = [sn \in Snapshots |-> {}]
        /\ env = [s \in Sessions |-> NoEnv]
        /\ task = [s \in Sessions |-> NoTask]
        /\ uploads = [s \in Sessions |-> {}]
        /\ acked = [s \in Sessions |-> {}]
        /\ chunks = [d \in Digests |-> -1]
        /\ now = 0
        /\ gc = NoGc
        /\ chunk_file = [d \in Digests |-> NoFile]
        /\ bad_files = [d \in Digests |-> 0]
        /\ manifest = [sn \in Snapshots |-> NoManifest]
        /\ verify = NoVerify
        /\ wt = NoWorkerTask
        /\ tl = NoTaskList
        /\ blobr = NoBlobReader
        /\ catalog = NoCatalog
        /\ srv = NoServer

NextRrd == \E time \in RrdTimes, value \in RrdValues : update(time, value)

SpecRrd == InitRrd /\ [][NextRrd]_vars

\* ------------------------------------------------------------ blob reader
\* A blob file: its magic, the crc and the HMAC or GCM tag of its header, and
\* the bytes after the header.  Bytes are 0 or 1.
BlobMagics ==
    {"UNCOMPRESSED_BLOB_MAGIC_1_0", "COMPRESSED_BLOB_MAGIC_1_0",
     "AUTHENTICATED_BLOB_MAGIC_1_0", "AUTH_COMPR_BLOB_MAGIC_1_0",
     "ENCRYPTED_BLOB_MAGIC_1_0", "ENCR_COMPR_BLOB_MAGIC_1_0", "other"}
BlobBytes == {0, 1}
BlobData == UNION {[1..n -> BlobBytes] : n \in 0..MaxBlobLen}
BlobFilesRead ==
    [magic : BlobMagics, crc : 0..3, auth : 0..1, data : BlobData]

RECURSIVE ByteSum(_)
ByteSum(bytes) ==
    IF bytes = <<>> THEN 0 ELSE Head(bytes) + ByteSum(Tail(bytes))

\* ChecksumReader: the crc32 of the bytes that went through it, and the HMAC
\* of them when it was made with a CryptConfig.  CryptReader: the GCM tag of
\* the bytes it decrypted.
Crc32(bytes) == (ByteSum(bytes) + 3 * Len(bytes)) % 4
Hmac(bytes) == (ByteSum(bytes) + Len(bytes)) % 2
GcmTag(bytes) == (ByteSum(bytes) + 1) % 2

\* What the innermost layers make of one byte of the file: the decoder and
\* the decrypter hand on a byte for a byte.
Plain(state, byte) ==
    IF state \in {"Encrypted", "EncryptedCompressed"} THEN 1 - byte ELSE byte

\* BlobReaderState of a magic.
BlobReaderStateOf(magic) ==
    CASE magic = "UNCOMPRESSED_BLOB_MAGIC_1_0" -> "Uncompressed"
      [] magic = "COMPRESSED_BLOB_MAGIC_1_0" -> "Compressed"
      [] magic = "AUTHENTICATED_BLOB_MAGIC_1_0" -> "Signed"
      [] magic = "AUTH_COMPR_BLOB_MAGIC_1_0" -> "SignedCompressed"
      [] magic = "ENCRYPTED_BLOB_MAGIC_1_0" -> "Encrypted"
      [] magic = "ENCR_COMPR_BLOB_MAGIC_1_0" -> "EncryptedCompressed"
      [] OTHER -> "none"

BlobStep(next) ==
    /\ blobr' = next
    /\ UNCHANGED <<wt, tl, rrd, catalog, srv>>
    /\ UNCHANGED <<owner, snaps, commits, group_lock, snap_lock, env, task,
                   uploads, acked, chunks, now, gc, chunk_file, verifyVars>>

\* DataBlobReader::new(reader, config): the header is read and the readers
\* are stacked; nothing of the data is read.  pos: bytes of the data read so
\* far, out: the bytes read() has handed to the caller, result: what
\* new or finish returned ("": not yet).
DataBlobReaderNew(file, config) ==
    /\ blobr.state = "none"
    /\ ~("result" \in DOMAIN blobr)
    /\ LET state == BlobReaderStateOf(file.magic)
           result == CASE state = "none" -> "got wrong magic number"
                       [] state \in {"Encrypted", "EncryptedCompressed"}
                          /\ ~config -> "panic: unwrap on None"
                       [] OTHER -> ""
       IN  BlobStep([state |-> IF result = "" THEN state ELSE "none",
                     file |-> file, config |-> config, pos |-> 0,
                     out |-> <<>>, result |-> result])

\* DataBlobReader::read(buf) with a buffer of len bytes: the inner reader's
\* read, whatever the state.
DataBlobReaderRead(len) ==
    /\ blobr.state \notin {"none", "finished"}
    /\ blobr.pos < Len(blobr.file.data)
    /\ LET end == IF blobr.pos + len > Len(blobr.file.data)
                  THEN Len(blobr.file.data) ELSE blobr.pos + len
           got == [i \in 1..(end - blobr.pos) |->
                     Plain(blobr.state, blobr.file.data[blobr.pos + i])]
       IN  BlobStep([blobr EXCEPT !.pos = end, !.out = blobr.out \o got])

\* DataBlobReader::finish: the checks made on what went through the readers.
BlobFinishError(state, file, config, pos) ==
    LET seen == SubSeq(file.data, 1, pos)
    IN  CASE state \in {"Encrypted", "EncryptedCompressed"}
             /\ GcmTag(seen) # file.auth -> "tag verification failed"
          [] Crc32(seen) # file.crc -> "blob crc check failed"
          [] state \in {"Signed", "SignedCompressed"} /\ config
             /\ Hmac(seen) # file.auth -> "blob signature check failed"
          [] OTHER -> ""

DataBlobReaderFinish ==
    /\ blobr.state \notin {"none", "finished"}
    /\ LET err == BlobFinishError(blobr.state, blobr.file, blobr.config, blobr.pos)
       IN  BlobStep([blobr EXCEPT !.state = "finished",
                                  !.result = IF err = "" THEN "ok" ELSE err])

NextBlobReader ==
    \/ \E file \in BlobFilesRead, config \in BOOLEAN :
           DataBlobReaderNew(file, config)
    \/ \E len \in 1..MaxBlobLen : DataBlobReaderRead(len)
    \/ DataBlobReaderFinish

SpecBlobReader == Init /\ [][NextBlobReader]_vars

\* ------------------------------------------------------------ catalog numbers
\* A u64 is the sequence of its ten base-128 digits, lowest first; the tenth
\* digit is bit 63 alone.
U64Digits == 10
MaxEncodedLen == 9
Digit7 == {0, 127}
U64Values ==
    {low \o <<top>> : low \in [1..(U64Digits - 1) -> Digit7], top \in {0, 1}}
U64Zero == [i \in 1..U64Digits |-> 0]

\* v & (1<<63), d < 128, d & 127, d >> 7 and v | (t << (i*7)) on digits.
Bit63(v) == v[U64Digits]
Below128(d) == \A i \in 2..U64Digits : d[i] = 0
ShiftRight7(d) == Tail(d) \o <<0>>
OrShifted(v, t, i) == [v EXCEPT ![i + 1] = t]

\* catalog_encode_u64, the loop: the bytes pushed for d after enc.
RECURSIVE EncodeLoop(_, _)
EncodeLoop(enc, d) ==
    IF Below128(d) THEN Append(enc, d[1])
    ELSE EncodeLoop(Append(enc, 128 + d[1]), ShiftRight7(d))

\* catalog_encode_u64(writer, v): the error and the bytes written.
catalog_encode_u64(v) ==
    IF Bit63(v) # 0
    THEN [err |-> "catalog_encode_u64 failed - value >= 2^63", enc |-> <<>>]
    ELSE [err |-> "", enc |-> EncodeLoop(<<>>, v)]

\* catalog_decode_u64, the loop from pass i with v so far: the error, the
\* value and the number of bytes read from the reader.
RECURSIVE DecodeLoop(_, _, _)
DecodeLoop(reader, v, i) ==
    IF i >= MaxEncodedLen
    THEN [err |-> "decode_u64 failed - missing end marker", v |-> U64Zero, read |-> i]
    ELSE IF i >= Len(reader)
    THEN [err |-> "failed to fill whole buffer", v |-> U64Zero, read |-> i]
    ELSE LET t == reader[i + 1]
         IN  IF t < 128
             THEN [err |-> "", v |-> OrShifted(v, t, i), read |-> i + 1]
             ELSE DecodeLoop(reader, OrShifted(v, t - 128, i), i + 1)

\* Faulty variant of catalog_decode_u64: only eight bytes are allowed.
RECURSIVE DecodeLoopEight(_, _, _)
DecodeLoopEight(reader, v, i) ==
    IF i >= 8
    THEN [err |-> "decode_u64 failed - missing end marker", v |-> U64Zero, read |-> i]
    ELSE IF i >= Len(reader)
    THEN [err |-> "failed to fill whole buffer", v |-> U64Zero, read |-> i]
    ELSE LET t == reader[i + 1]
         IN  IF t < 128
             THEN [err |-> "", v |-> OrShifted(v, t, i), read |-> i + 1]
             ELSE DecodeLoopEight(reader, OrShifted(v, t - 128, i), i + 1)

catalog_decode_u64_eight(reader) == DecodeLoopEight(reader, U64Zero, 0)

\* catalog_decode_u64(reader).
catalog_decode_u64(reader) == DecodeLoop(reader, U64Zero, 0)

CatalogStep(next) ==
    /\ catalog' = next
    /\ UNCHANGED <<wt, tl, rrd, blobr, srv>>
    /\ UNCHANGED <<owner, snaps, commits, group_lock, snap_lock, env, task,
                   uploads, acked, chunks, now, gc, chunk_file, verifyVars>>

\* A writer encodes v into its empty buffer.
CatalogEncode(v) ==
    /\ catalog.stage = "none"
    /\ LET out == catalog_encode_u64(v)
       IN  CatalogStep([catalog EXCEPT !.stage = "encoded",
                                       !.v = v,
                                       !.buf = catalog.buf \o out.enc,
                                       !.written = Len(out.enc),
                                       !.err = out.err])

\* The writer goes on writing other bytes after the number.
CatalogWriteMore(bytes) ==
    /\ catalog.stage = "encoded"
    /\ catalog.err = ""
    /\ CatalogStep([catalog EXCEPT !.stage = "full",
                                   !.buf = catalog.buf \o bytes])

\* A reader decodes a number from the start of the buffer.
CatalogDecode ==
    /\ catalog.stage = "full"
    /\ LET out == catalog_decode_u64(catalog.buf)
       IN  CatalogStep([catalog EXCEPT !.stage = "decoded",
                                       !.err = out.err,
                                       !.decoded = out.v,
                                       !.read = out.read])

MoreBytes == {<<>>, <<1>>, <<129>>, <<129, 1>>}

NextCatalog ==
    \/ \E v \in U64Values : CatalogEncode(v)
    \/ \E bytes \in MoreBytes : CatalogWriteMore(bytes)
    \/ CatalogDecode

SpecCatalog == Init /\ [][NextCatalog]_vars

\* ------------------------------------------------- verify beside a backup
\* A datastore with one committed snapshot of vm/100, at backup time 1; a
\* client opens a backup session on the group while the datastore is
\* verified.
InitVerifyBesideBackup ==
    \E index \in {<<1>>, <<1, NumDigests>>} :
        LET s == SnapshotOf(<<FileInfo("a.didx", TRUE, "none")>>, TRUE, index)
            last == <<"vm/100", 1>>
        IN  /\ snaps = [sn \in Snapshots |-> IF sn = last THEN s.dir ELSE NoDir]
            /\ manifest = [sn \in Snapshots |->
                             IF sn = last THEN s.manifest ELSE NoManifest]
            /\ commits = [g \in Groups |->
                            IF g = "vm/100" THEN <<1>> ELSE <<>>]
            /\ owner = [g \in Groups |->
                          IF g = "vm/100" THEN "u1" ELSE NoUser]
            /\ snap_lock = [sn \in Snapshots |-> {}]
            /\ chunk_file \in {f \in [Digests ->
                                        UNION {ChunkFiles(d) : d \in Digests}] :
                                 \A d \in Digests : f[d] \in ChunkFiles(d)}
            /\ chunks = [d \in Digests |->
                           IF chunk_file[d] = NoFile THEN -1 ELSE 0]
            /\ group_lock = [g \in Groups |-> {}]
            /\ env = [s2 \in Sessions |-> NoEnv]
            /\ task = [s2 \in Sessions |-> NoTask]
            /\ uploads = [s2 \in Sessions |-> {}]
            /\ acked = [s2 \in Sessions |-> {}]
            /\ now = 0
            /\ gc = NoGc
            /\ bad_files = [d \in Digests |-> 0]
            /\ verify = NoVerify
            /\ wt = NoWorkerTask
            /\ tl = NoTaskList
            /\ rrd = NoRrd
            /\ blobr = NoBlobReader
            /\ catalog = NoCatalog
            /\ srv = NoServer

NextVerifyBesideBackup ==
    \/ Open(One, VmGroup, {"u1"}) \/ ConnectionEnd(One) \/ WorkerEnd(One)
    \/ NextVerify

SpecVerifyBesideBackup ==
    InitVerifyBesideBackup /\ [][NextVerifyBesideBackup]_vars

\* ------------------------------------------------------------ server state
\* SERVER_STATE and WORKER_TASK_LIST of one process, and the threads that go
\* through WorkerTask::new, WorkerTask::log_result, spawn_internal_task and
\* server_shutdown.  Each lock().unwrap() section of SERVER_STATE is one
\* step; the guard on WORKER_TASK_LIST is held over several.
Workers == 1..NumWorkers
Internals == 1..NumInternal

SrvStep(next) ==
    /\ srv' = next
    /\ UNCHANGED <<wt, tl, rrd, blobr, catalog>>
    /\ UNCHANGED <<owner, snaps, commits, group_lock, snap_lock, env, task,
                   uploads, acked, chunks, now, gc, chunk_file, verifyVars>>

\* check_last_worker: the listeners are notified in shutdown mode when both
\* counts are zero.
check_last_worker(state) ==
    IF ~(state.mode = "Shutdown" /\ state.worker_count = 0
         /\ state.internal_task_count = 0)
    THEN state
    ELSE [state EXCEPT !.notified = @ + 1]

\* WorkerTask::new, lines 691-692: WORKER_TASK_LIST is locked and the worker
\* inserted.
worker_new_insert(w) ==
    /\ srv.alive
    /\ srv.wpc[w] = "none"
    /\ srv.list_lock = 0
    /\ SrvStep([srv EXCEPT !.list_lock = w, !.list = @ \cup {w},
                           !.wpc[w] = "new_count"])

\* set_worker_count(hash.len()), line 106: the count is stored.
worker_new_count(w) ==
    /\ srv.alive
    /\ srv.wpc[w] = "new_count"
    /\ SrvStep([srv EXCEPT !.worker_count = Cardinality(srv.list),
                           !.wpc[w] = "new_check"])

\* set_worker_count, line 108: check_last_worker; then the guard on the list
\* is dropped (line 694) and update_active_workers lists the task.
worker_new_check(w) ==
    /\ srv.alive
    /\ srv.wpc[w] = "new_check"
    /\ SrvStep([check_last_worker(srv) EXCEPT !.list_lock = 0,
                                              !.wpc[w] = "running"])

\* Faulty variant of ResultLogged: the line is still to be written when
\* log_result goes on.
ResultLoggedLater == FALSE

\* log_result, line 778: self.log(state.result_text()) has returned, the
\* line is in the log.
ResultLogged == TRUE

\* WorkerTask::log_result, lines 777-778, once the worker's future is done.
log_result_log(w) ==
    /\ srv.alive
    /\ srv.wpc[w] = "running"
    /\ SrvStep([srv EXCEPT !.logged[w] = ResultLogged, !.wpc[w] = "lr_remove"])

\* log_result, lines 780-781: the worker is removed under the lock, the lock
\* is dropped and update_active_workers(None) runs.
log_result_remove(w) ==
    /\ srv.alive
    /\ srv.wpc[w] = "lr_remove"
    /\ srv.list_lock = 0
    /\ SrvStep([srv EXCEPT !.list = @ \ {w}, !.wpc[w] = "lr_count"])

\* log_result, line 782: the list is locked for the statement, its length is
\* taken and set_worker_count stores it.
log_result_count(w) ==
    /\ srv.alive
    /\ srv.wpc[w] = "lr_count"
    /\ srv.list_lock = 0
    /\ SrvStep([srv EXCEPT !.list_lock = w,
                           !.worker_count = Cardinality(srv.list),
                           !.wpc[w] = "lr_check"])

\* set_worker_count, line 108: check_last_worker; the statement ends and the
\* lock on the list is dropped.
log_result_check(w) ==
    /\ srv.alive
    /\ srv.wpc[w] = "lr_check"
    /\ SrvStep([check_last_worker(srv) EXCEPT !.list_lock = 0,
                                              !.wpc[w] = "done"])

\* spawn_internal_task, lines 127-130: the count is raised and the task
\* spawned.
spawn_internal_task(i) ==
    /\ srv.alive
    /\ srv.ipc[i] = "none"
    /\ SrvStep([srv EXCEPT !.internal_task_count = @ + 1,
                           !.ipc[i] = "running"])

\* Line 131: the task has run to its end.
internal_task_end(i) ==
    /\ srv.alive
    /\ srv.ipc[i] = "running"
    /\ SrvStep([srv EXCEPT !.ipc[i] = "count"])

\* Lines 133-138: the count is lowered.
internal_task_count_down(i) ==
    /\ srv.alive
    /\ srv.ipc[i] = "count"
    /\ SrvStep([srv EXCEPT !.internal_task_count = IF @ > 0 THEN @ - 1 ELSE @,
                           !.ipc[i] = "check"])

\* Line 140: check_last_worker.
internal_task_check(i) ==
    /\ srv.alive
    /\ srv.ipc[i] = "check"
    /\ SrvStep([check_last_worker(srv) EXCEPT !.ipc[i] = "done"])

\* Faulty variant of ShutdownThen: server_shutdown returns once the mode is
\* set.
ShutdownThenReturn == "done"

\* server_shutdown after drop(data), line 89: check_last_worker follows.
ShutdownThen == "check"

\* server_shutdown, lines 79-87: the mode is set and the shutdown listeners
\* are notified.
server_shutdown ==
    /\ srv.alive
    /\ srv.spc = "none"
    /\ SrvStep([srv EXCEPT !.mode = "Shutdown", !.spc = ShutdownThen])

\* server_shutdown, line 89: check_last_worker.
server_shutdown_check ==
    /\ srv.alive
    /\ srv.spc = "check"
    /\ SrvStep([check_last_worker(srv) EXCEPT !.spc = "done"])

\* The process is killed: its threads stop and its tasks are found not
\* running by worker_is_active_local of another process.
process_killed ==
    /\ srv.alive
    /\ SrvStep([srv EXCEPT !.alive = FALSE])

\* A thread of the process goes on with the call it is in.
InCall ==
    \/ \E w \in Workers :
          \/ worker_new_count(w) \/ worker_new_check(w)
          \/ log_result_remove(w) \/ log_result_count(w) \/ log_result_check(w)
    \/ \E i \in Internals : internal_task_count_down(i) \/ internal_task_check(i)
    \/ server_shutdown_check

\* A call begins or a task's future comes to its end.
Begin ==
    \/ \E w \in Workers : worker_new_insert(w) \/ log_result_log(w)
    \/ \E i \in Internals : spawn_internal_task(i) \/ internal_task_end(i)
    \/ server_shutdown

NextServer == InCall \/ Begin

SpecServer == Init /\ [][NextServer]_vars

\* A thread inside a call keeps running.
SpecServerLive == Init /\ [][NextServer]_vars /\ WF_vars(InCall)

NextServerKilled == NextServer \/ process_killed

SpecServerKilled == Init /\ [][NextServerKilled]_vars

\* ------------------------------------------------------------ properties
\* A snapshot is committed once finish has succeeded on it and as long as
\* its directory exists.
Committed(sn) == snaps[sn].exists /\ sn[2] \in SeqToSet(commits[sn[1]])

\* The chunks named by the indices of the committed snapshots.
Referenced ==
    UNION {IndexDigests(snaps[file[1]].index[file[2]]) :
             file \in {x \in AllIndexFiles : Committed(x[1])}}

\* C1: GC safety.  No step of a GC run deletes a chunk that an index of a
\* snapshot committed before that step references, whether the session
\* uploaded the chunk or registered it from its previous snapshot.
C1_GcSafety ==
    [][\A d \in Digests :
          (chunks[d] # -1 /\ chunks'[d] = -1) => d \notin Referenced]_vars

\* The session is between open and the end of its worker's future.
Running(s) == task[s].phase = "running"

OwnSnapshot(s) == <<env[s].group, env[s].time>>

PrevSnapshot(s) == <<env[s].group, env[s].last_backup>>

\* The directories session s holds a flock on.
HeldLocks(s) ==
    {g \in Groups : s \in group_lock[g]}
    \cup {sn \in Snapshots : s \in snap_lock[sn]}

\* C2: at most one session holds the lock on a snapshot directory, at most
\* one session of a group is between open and the end of its worker, and
\* while one is, an open on its group (with the benchmark flag that belongs
\* to the group) fails with the group-locked error.
C2_OneSessionPerGroup ==
    /\ \A sn \in Snapshots : Cardinality(snap_lock[sn]) <= 1
    /\ \A s1, s2 \in Sessions :
          Running(s1) /\ Running(s2) /\ env[s1].group = env[s2].group => s1 = s2
    /\ \A s \in Sessions, t \in Times, u \in Users :
          Running(s) =>
            OpenError(env[s].group, t, env[s].benchmark, u) = "group already locked"

\* C2 happens: a session runs on a group, holding its lock, while another
\* connection is free to ask for a session, and a second session runs on
\* another group.
C2_Witness ==
    \E s1, s2 \in Sessions :
        /\ Running(s1) /\ group_lock[env[s1].group] = {s1}
        /\ snap_lock[OwnSnapshot(s1)] = {s1}
        /\ Running(s2) /\ env[s2].group # env[s1].group

StrictlyIncreasing(seq) == \A i, j \in 1..Len(seq) : i < j => seq[i] < seq[j]

\* The latest snapshot directory of the group, NoTime when it has none.
LatestExisting(g) ==
    LET have == {t \in Times : snaps[<<g, t>>].exists} IN
    IF have = {} THEN NoTime ELSE Max(have)

\* C3: the backup times of a group's committed snapshots increase strictly
\* in commit order, an open whose backup time is not later than the group's
\* latest snapshot is rejected, and no step creates a snapshot directory or
\* starts a worker for such a time.
C3_MonotoneBackupTimes ==
    /\ [](\A g \in Groups : StrictlyIncreasing(commits[g]))
    /\ [](\A g \in Groups, t \in Times, b \in BOOLEAN, u \in Users :
            t <= LatestExisting(g) => OpenError(g, t, b, u) # "")
    /\ [][\A g \in Groups, t \in Times :
            (\/ ~snaps[<<g, t>>].exists /\ snaps'[<<g, t>>].exists
             \/ \E s \in Sessions : /\ ~Running(s) /\ Running(s)'
                                     /\ OwnSnapshot(s)' = <<g, t>>)
            => t > LatestExisting(g)]_vars

\* C3 happens: a group has two committed snapshots and a connection is free
\* to ask for an earlier one.
C3_Witness ==
    \E g \in Groups :
        /\ Len(commits[g]) = 2
        /\ group_lock[g] = {}
        /\ \E s \in Sessions : task[s].phase = "none"

\* C4: while a session is between open and the end of its worker, the lock
\* on its previous snapshot cannot be taken and no step removes or changes
\* the previous snapshot.
C4_PreviousSnapshotKept ==
    /\ [](\A s \in Sessions :
            Running(s) /\ env[s].last_backup # NoTime =>
              /\ ~lock_dir_noblock(snap_lock[PrevSnapshot(s)])
              /\ snaps[PrevSnapshot(s)].exists)
    /\ [][\A s \in Sessions :
            Running(s) /\ env[s].last_backup # NoTime =>
              snaps'[PrevSnapshot(s)] = snaps[PrevSnapshot(s)]]_vars

\* C4 happens: a session with a previous snapshot is running on a group
\* that has no other snapshot besides the two.
C4_Witness ==
    \E s \in Sessions :
        /\ Running(s) /\ env[s].last_backup # NoTime
        /\ snap_lock[PrevSnapshot(s)] = {s}
        /\ ManifestName \in snaps[PrevSnapshot(s)].blobs
        /\ task[s].conn = "open"

\* C5: when the worker of a session that is no benchmark ends without finish
\* having succeeded, the snapshot directory is gone and the result is an
\* error; when the task is logged it holds no lock any more and an error
\* result has become the task state Error.
C5_UnfinishedSessionCleanup ==
    [][\A s \in Sessions :
          /\ (Running(s) /\ ~Running(s)' /\ ~env[s].benchmark /\ ~env[s].finished)
               => /\ ~snaps'[OwnSnapshot(s)].exists
                  /\ task'[s].result # ""
          /\ (task[s].phase = "ended" /\ task'[s].phase = "none")
               => /\ HeldLocks(s)' = {}
                  /\ (task[s].result # "") = (task'[s].state.kind = "Error")]_vars

\* C5 happens: the task of a session ended by an abort without finish has
\* been logged, beside a committed snapshot.
C5_Witness ==
    \E s \in Sessions :
        /\ task[s].phase = "none"
        /\ task[s].state = [kind |-> "Error", message |-> "task aborted"]
        /\ HeldLocks(s) = {}
        /\ \E g \in Groups : Len(commits[g]) = 1 /\ LatestExisting(g) = commits[g][1]

AllWritersClosed(s) ==
    \A wid \in 1..Len(env[s].writers) : env[s].writers[wid].closed

\* C6: a running session is marked finished only with all its writers
\* closed and a manifest in its snapshot directory, finish answers with an
\* error otherwise, and a snapshot directory without a running session is a
\* committed one with a manifest.
C6_FinishRequires ==
    /\ \A s \in Sessions :
          Running(s) =>
            /\ env[s].finished =>
                  /\ AllWritersClosed(s)
                  /\ ManifestName \in snaps[OwnSnapshot(s)].blobs
            /\ (~AllWritersClosed(s)
                   \/ ManifestName \notin snaps[OwnSnapshot(s)].blobs)
                  => FinishError(s) # ""
    /\ \A sn \in Snapshots :
          snaps[sn].exists /\ (\A s \in Sessions : Running(s) => OwnSnapshot(s) # sn)
            => Committed(sn) /\ ManifestName \in snaps[sn].blobs

\* C6 happens: finish has succeeded on a session that had allocated a
\* writer.
C6_Witness ==
    \E s \in Sessions :
        Running(s) /\ env[s].finished /\ Len(env[s].writers) > 0

\* C7: once finish has succeeded on a session, every create_index, chunk
\* upload, append, close, blob upload and finish request is answered with an
\* error.
C7_ErrorsAfterFinish ==
    \A s \in Sessions :
        Serving(s) /\ env[s].finished =>
          /\ \A name \in FileNames : CreateDynamicError(s, name) # ""
          /\ \A name \in FileNames, size \in FileSizes :
                CreateFixedError(s, name, size, <<>>) # ""
          /\ \A u \in uploads[s] : UploadError(s, u) # ""
          /\ \A kind \in Kinds, wid \in Wids, l \in AppendLists :
                AppendResult(s, kind, wid, l[1], l[2]).err # ""
          /\ \A kind \in Kinds, wid \in Wids, n \in ListLens, csum \in Csums :
                CloseError(s, kind, wid, n, n * chunk_size, csum) # ""
          /\ \A name \in FileNames : BlobError(s, name, 1, 1) # ""
          /\ FinishError(s) # ""

\* The digests an append has added to the writer: those of the writer after
\* it that the writer before it has not at the same place.
Forwarded(before, after) ==
    {after.data[i] : i \in {k \in 1..Len(after.data) :
                               k > Len(before.data) \/ before.data[k] # after.data[k]}}

\* C8: whatever an append request names, the digests it adds to a writer are
\* in the registry of known chunks; a request naming a digest that is not
\* fails, and when its first digest is not it fails with the unknown-chunk
\* error for that digest.
C8_AppendOnlyKnown ==
    \A s \in Sessions, kind \in Kinds, wid \in Wids, l \in AppendLists :
        Serving(s) /\ Len(l[1]) = Len(l[2]) =>
          LET out == AppendResult(s, kind, wid, l[1], l[2]) IN
          /\ \A w \in 1..Len(env[s].writers) :
                Forwarded(env[s].writers[w], out.writers[w])
                  \subseteq env[s].known_chunks
          /\ ~(SeqToSet(l[1]) \subseteq env[s].known_chunks) => out.err # ""
          /\ (l[1] # <<>> /\ l[1][1] \notin env[s].known_chunks)
                => out.err = "no such chunk" /\ out.digest = l[1][1]

\* C8 happens: a writer holds a chunk forwarded by an append while one
\* digest is registered and another is not.
C8_Witness ==
    \E s \in Sessions :
        /\ Serving(s)
        /\ env[s].known_chunks \notin {{}, Digests}
        /\ \E wid \in 1..Len(env[s].writers) : env[s].writers[wid].count > 0

\* C9: a digest whose upload was answered with success is in the registry
\* as long as the session serves requests, whatever other uploads are in
\* flight: no append fails for it with the unknown-chunk error.
C9_AppendSeesAckedUploads ==
    \A s \in Sessions :
        Serving(s) =>
          \A d \in acked[s] :
            /\ lookup_chunk(env[s].known_chunks, d) # 0
            /\ \A kind \in Kinds, wid \in Wids, o \in Offsets :
                  AppendResult(s, kind, wid, <<d>>, <<o>>).err # "no such chunk"

\* C9 happens: one upload has been answered with success, two more are in
\* flight, and a writer is open for the append.
C9_Witness ==
    \E s \in Sessions :
        /\ Serving(s)
        /\ acked[s] # {}
        /\ Cardinality(uploads[s]) = 2
        /\ \E kind \in Kinds : WriterOpen(s, kind, 1)

\* An upload whose body is not as long as announced, or whose blob does not
\* match the announced digest and size or has a wrong CRC.
BadUpload(u) ==
    \/ u.body.len # u.encoded_size
    \/ ~u.body.crc_ok
    \/ u.body.payload # u.digest
    \/ PayloadSize(u.body.payload) # u.size

\* C10: a bad upload is answered with an error when its body has ended or
\* has outgrown the announced size, and the step that ends it leaves the
\* chunk store, the session's registries and the snapshot directories as
\* they are.
C10_BadUploadNoChange ==
    /\ [](\A s \in Sessions : \A u \in uploads[s] :
            BadUpload(u) =>
              /\ u.raw_len = u.body.len => UploadError(s, u) # ""
              /\ (u.raw_len < u.body.len /\ u.raw_len >= u.encoded_size)
                    => PollInputError(u) # "")
    /\ [][\A s \in Sessions : \A u \in uploads[s] :
            (/\ BadUpload(u)
             /\ u \notin uploads'[s]
             /\ [u EXCEPT !.raw_len = @ + 1] \notin uploads'[s])
              => /\ chunks' = chunks
                 /\ env'[s].known_chunks = env[s].known_chunks
                 /\ env'[s].writers = env[s].writers
                 /\ snaps' = snaps \/ ~Running(s)']_vars

\* C10 happens: the body of a bad upload has ended while the session has an
\* open writer and the chunk it names is not in the store.
C10_Witness ==
    \E s \in Sessions : \E u \in uploads[s] :
        /\ Serving(s)
        /\ BadUpload(u) /\ u.raw_len = u.body.len
        /\ WriterOpen(s, u.kind, u.wid)
        /\ chunks[u.digest] = -1

CloseInputs ==
    [chunk_count : ListLens, size : {k * chunk_size : k \in ListLens},
     csum : Csums]

\* A close of writer wid that is answered with success.
CloseAccepted(s, kind, wid, c) ==
    /\ Serving(s)
    /\ WriterOpen(s, kind, wid)
    /\ CloseError(s, kind, wid, c.chunk_count, c.size, c.csum) = ""

\* A writer of the session was refused by a close.
CloseRefused(s) ==
    \E wid \in 1..Len(env[s].writers) : env[s].writers[wid].failed

ReuseInputs == {<<>>} \cup {<<csum>> : csum \in Csums}

\* create_fixed_index can be served: the session is unfinished and a
\* writer-id is free.
CanCreate(s) ==
    /\ Serving(s)
    /\ ensure_unfinished(s) = ""
    /\ Len(env[s].writers) < MaxWriters

\* reuse_csum is the csum of the same-named index of the previous snapshot,
\* which has as many slots as the new index.
ReuseMatches(s, name, size, reuse_csum) ==
    /\ reuse_csum # <<>>
    /\ PreviousIndex(s, name)[1]
    /\ compute_csum(PreviousIndex(s, name)[2]) = reuse_csum[1]
    /\ Len(PreviousIndex(s, name)[2]) = Len(EmptySlots(size))

AbortedMidUpload(s) ==
    /\ Running(s)
    /\ task[s].abort_requested
    /\ uploads[s] # {}
    /\ ~env[s].finished

\* C14: once abort is requested while a chunk upload is in flight in an
\* unfinished session, the snapshot directory is eventually removed and the
\* group lock eventually released; the worker's future ends with the upload
\* unanswered and the error "abort requested - aborting task", and the task
\* state logged for it is Error with that message.
C14_AbortMidUpload ==
    /\ \A s \in Sessions, sn \in Snapshots :
          (AbortedMidUpload(s) /\ OwnSnapshot(s) = sn) ~> ~snaps[sn].exists
    /\ \A s \in Sessions, g \in Groups :
          (AbortedMidUpload(s) /\ env[s].group = g) ~> (s \notin group_lock[g])
    /\ [][\A s \in Sessions :
            /\ (AbortedMidUpload(s) /\ ~Running(s)') =>
                  /\ uploads'[s] = {}
                  /\ acked'[s] = acked[s]
                  /\ task'[s].result = "abort requested - aborting task"
            /\ (task[s].phase = "ended" /\ task'[s].phase = "none"
                /\ task[s].result # "") =>
                  task'[s].state =
                     [kind |-> "Error", message |-> task[s].result]]_vars
\* C15: the step that ends the worker's future of a benchmark session
\* leaves no snapshot directory of the session behind and ends the future
\* with Ok, whatever select! yielded and whether or not finish had succeeded;
\* and once the connection of a benchmark session has ended or its abort was
\* requested, its snapshot directory is eventually gone.
C15_BenchmarkRemoved ==
    /\ [][\A s \in Sessions :
            (Running(s) /\ env[s].benchmark /\ ~Running(s)') =>
               /\ ~snaps'[OwnSnapshot(s)].exists
               /\ ~Committed(OwnSnapshot(s))'
               /\ task'[s].result = ""]_vars
    /\ \A s \in Sessions, sn \in Snapshots :
          (/\ Running(s) /\ env[s].benchmark /\ OwnSnapshot(s) = sn
           /\ SelectResults(s) # {}) ~> ~snaps[sn].exists

\* C15 happens: the future of a benchmark session whose finish had succeeded
\* has ended after its connection was closed, and the directory is gone.
C15_Witness ==
    \E s \in Sessions :
        /\ task[s].phase = "ended"
        /\ env[s].benchmark
        /\ env[s].finished
        /\ task[s].conn = "closed"
        /\ ~snaps[OwnSnapshot(s)].exists

\* The flocks the worker of session s holds.
HoldsGroup(s) == s \in group_lock[env[s].group]
HoldsSnap(s) == s \in snap_lock[OwnSnapshot(s)]
HoldsLast(s) == env[s].last_backup # NoTime /\ s \in snap_lock[PrevSnapshot(s)]

\* C16: the locks of an ended worker are released in the reverse of the
\* order of their acquisition (group, previous snapshot, new snapshot): the
\* lock on the previous snapshot is released only after the lock on the new
\* snapshot, and the group lock only after both.
C16_ReverseRelease ==
    [][\A s \in Sessions :
         (task[s].phase = "ended" /\ task'[s].phase = "ended") =>
            /\ (HoldsLast(s) /\ ~HoldsLast(s)') => ~HoldsSnap(s)
            /\ (HoldsGroup(s) /\ ~HoldsGroup(s)') =>
                  (~HoldsSnap(s) /\ ~HoldsLast(s))]_vars
\* The manifest entry and the index verification is at.
CurFile == manifest[verify.sn].files[verify.file]
CurIndex == snaps[verify.sn].index[CurFile.filename]

\* The for loop of verify_index_chunks is at a chunk that is in neither set
\* and cannot be loaded.
LoadFails ==
    /\ verify.phase = "chunks"
    /\ verify.pos <= Len(CurIndex)
    /\ CurIndex[verify.pos] \notin verify.verified \cup verify.corrupt
    /\ ~load_chunk(CurIndex[verify.pos])

\* The decoder pool holds a chunk of known crypt mode that verify_unencrypted
\* refuses.
Invalid(job) == job.chunk.mode # "unknown" /\ ChunkVerifyError(job) # ""

\* Chunk d is quarantined by the step: its file, if there was one, is gone
\* from the chunk store and one more .bad file exists.
Quarantined(d) ==
    /\ chunk_file'[d] = NoFile
    /\ chunk_file[d] # NoFile =>
          /\ bad_files'[d] >= 1
          /\ bad_files'[d] >= bad_files[d]
          /\ bad_files[d] < MaxBadCounter => bad_files'[d] = bad_files[d] + 1

Completed(sn) == verify.results[sn] \in {"ok", "failed"}

\* verify_backup_dir returned Ok(true) for the snapshot.
ReturnedTrue(sn) == verify.results[sn] \in {"ok", "skipped", "filtered"}

\* C18: once the verification of a snapshot has run to completion, the
\* manifest holds the UPID of the worker and the state Failed if a file of
\* the manifest failed its check and Ok otherwise, and the call has returned
\* true exactly when that state is Ok; the error count that decides it goes up
\* by one with every file that fails and with no other.
C18_VerifyStateRecorded ==
    /\ [](\A sn \in Snapshots :
            Completed(sn) =>
              /\ manifest[sn].upid = VerifyUpid
              /\ manifest[sn].verify_state \in {"ok", "failed"}
              /\ ReturnedTrue(sn) <=> manifest[sn].verify_state = "ok")
    /\ [][/\ (verify.phase = "files" /\ verify'.file = verify.file + 1) =>
                verify'.error_count = verify.error_count
                   + (IF FileError(verify.sn, CurFile) # "" THEN 1 ELSE 0)
          /\ (verify.phase = "chunks" /\ verify'.phase = "files") =>
                verify'.error_count = verify.error_count
                   + (IF verify.errors > 0 THEN 1 ELSE 0)
          /\ (verify.phase = "files" /\ verify'.phase = "list") =>
                manifest'[verify.sn].verify_state =
                   IF verify.error_count >= 1 THEN "failed" ELSE "ok"]_vars

\* C18 happens: the run has completed one snapshot with a failed file and
\* another one without.
C18_Witness ==
    \E sn1, sn2 \in Snapshots :
        /\ verify.results[sn1] = "failed"
        /\ manifest[sn1].verify_state = "failed"
        /\ verify.results[sn2] = "ok"
        /\ manifest[sn2].verify_state = "ok"

\* C19: when the shared lock on the next snapshot is not granted, the step
\* of verify_backup_dir records the snapshot as skipped, which stands for
\* Ok(true), takes no lock, loads no chunk and leaves the verified and
\* corrupt sets, the chunk store and the manifests as they are; a skipped
\* snapshot keeps the verify state it had.
C19_LockedSnapshotSkipped ==
    /\ [][(/\ verify.phase = "list"
           /\ verify.list # <<>>
           /\ ~lock_dir_noblock_shared(snap_lock[Head(verify.list)])
           /\ verify' # verify) =>
             /\ verify'.results[Head(verify.list)] = "skipped"
             /\ verify'.results[Head(verify.list)]
                   \in {"ok", "skipped", "filtered"}
             /\ verify'.phase = "list"
             /\ verify'.list = Tail(verify.list)
             /\ verify'.verified = verify.verified
             /\ verify'.corrupt = verify.corrupt
             /\ verify'.pool = verify.pool
             /\ manifest' = manifest
             /\ chunk_file' = chunk_file
             /\ bad_files' = bad_files
             /\ snap_lock' = snap_lock]_vars
    /\ [](\A sn \in Snapshots :
            verify.results[sn] = "skipped" =>
               /\ manifest[sn].verify_state = "none"
               /\ Verifier \notin snap_lock[sn])

\* C19 happens: a locked snapshot was skipped after another snapshot had put
\* a digest into the verified set and one into the corrupt set.
C19_Witness ==
    \E sn \in Snapshots :
        /\ verify.results[sn] = "skipped"
        /\ snap_lock[sn] = {1}
        /\ verify.verified # {}
        /\ verify.corrupt # {}

\* A decoder thread on the chunk file of digest d as it is now, for an index
\* of the given crypt mode, counts an error.
ChunkFails(d, crypt_mode) ==
    \/ ~load_chunk(d)
    \/ DecodeOutcome([chunk |-> chunk_file[d], digest |-> d,
                      size |-> PayloadSize(d)], crypt_mode).errors > 0

\* The check of a file of the manifest fails when it is made with both sets
\* empty on the chunk store as it is now.
FileFails(sn, info) ==
    IF FileError(sn, info) = "chunks"
    THEN \E i \in 1..Len(snaps[sn].index[info.filename]) :
            ChunkFails(snaps[sn].index[info.filename][i], info.crypt_mode)
    ELSE FileError(sn, info) # ""

\* The result of verifying the snapshot with both sets empty.
FreshResult(sn) ==
    IF \E i \in 1..Len(manifest[sn].files) : FileFails(sn, manifest[sn].files[i])
    THEN "failed" ELSE "ok"

\* C20: the result recorded for a snapshot of a run that shares the verified
\* and corrupt sets is the result of verifying that snapshot with both sets
\* empty on the same chunk store.
C20_SharedSetsSameResult ==
    [][(verify.phase = "files" /\ verify'.phase = "list") =>
          verify'.results[verify.sn] = FreshResult(verify.sn)']_vars
\* C21: quarantining a corrupted chunk renames it to <digest>.<n>.bad for a
\* counter n whose name did not exist before, so one more .bad file lies beside
\* the digest afterwards and no file quarantined earlier is overwritten.
C21_QuarantineNeverOverwrites ==
    [][\A d \in Digests :
          (chunk_file[d] # NoFile /\ chunk_file'[d] = NoFile)
              => /\ BadName(bad_files[d]) \notin 0..(bad_files[d] - 1)
                 /\ bad_files'[d] = bad_files[d] + 1]_vars
\* The abort future of the c-th call has resolved: its sender was used.
Resolved(c) == wt.chan[c] \in {"woken", "ready"}

\* C22: once request_abort has set the abort flag it stays set, and every
\* abort future resolves, the ones made before the request (woken by it) and
\* the ones made after it, however the calls of the threads interleave.
C22_AbortWakesAll ==
    /\ [][wt.abort_requested => wt'.abort_requested]_vars
    /\ \A c \in 1..MaxCalls :
          (wt.abort_requested /\ wt.chan[c] # "none") ~> Resolved(c)

\* A request_abort has returned after waking a listener, and a later
\* abort_future resolved at once.
C22_Witness ==
    /\ wt.abort_requested
    /\ \A t \in Threads : wt.pc[t] = "idle"
    /\ \E c, d \in 1..MaxCalls : wt.chan[c] = "woken" /\ wt.chan[d] = "ready"
\* The last line of a log: what follows the last line feed but the final one.
LastLine(log) ==
    LET data == SubSeq(log, 1, Len(log) - 1)
    IN  SubSeq(data, LastLineStart(data, Len(data)), Len(data))

\* C23: when a task has ended, the last line of its log is TASK OK,
\* TASK WARNINGS: n or TASK ERROR: <msg> for the state it ended with, and
\* upid_read_status reads from the log a state of the same kind, warning
\* count and error message.
C23_LogEndsWithState ==
    \A u \in Upids :
        tl.task[u].status = "ended" =>
            LET ended == tl.task[u].state
                read == upid_read_status(tl.task[u].log, tl.task[u].starttime)
            IN  /\ LastLine(tl.task[u].log)
                      = <<epoch_to_rfc3339(ended.endtime), ": ">>
                        \o result_text(ended)
                /\ read.kind = ended.kind
                /\ read.count = ended.count
                /\ read.message = ended.message

\* C24: once update_active_workers has run with no new task, running it
\* again, with no task started or stopped in between, leaves the active,
\* index and archive files as the first run left them.
C24_ReconcileIdempotent ==
    [][TaskFiles' = UpdateActiveWorkers(TaskFiles, tl'.task, tl'.clock, 0)
          => UpdateActiveWorkers(TaskFiles', tl'.task, tl'.clock, 0)
                 = TaskFiles']_vars
\* The lines for task u in a task list file.
LinesOf(file, u) == {i \in 1..Len(file) : file[i].upid = u}

\* Task u is listed as running in the active file.
ListedActive(u) == \E i \in LinesOf(tl.active, u) : tl.active[i].fields = 1

\* The line that records task u as finished with the given state.
FinishedLine(u, state) ==
    [upid |-> u, fields |-> 3, endtime |-> state.endtime,
     status |-> Display(state)]

C26_PastUpdateRejected ==
    \A time \in RrdTimes, value \in RrdValues :
        (\/ time < 0
         \/ rrd.accepted # <<>> /\ time <= Last(rrd.accepted).time)
        => /\ Update(rrd.db, time, value).err # ""
           /\ Update(rrd.db, time, value).db = rrd.db

\* An update with a time in the past was rejected by a database that holds
\* data.
C26_Witness ==
    /\ rrd.result = "time in past"
    /\ Len(rrd.accepted) >= 2
    /\ \E i \in 1..Len(rrd.db.rra_list) : rrd.db.rra_list[i].last_count >= 2
\* The sample of the k-th accepted update: the value for Gauge, the change of
\* the value per second since the update before for Derive, 0 for the first.
SampleOf(k) ==
    IF rrd.db.source.dst = "Gauge" THEN Num(rrd.accepted[k].value)
    ELSE IF k = 1 THEN Num(0)
    ELSE Rat(rrd.accepted[k].value - rrd.accepted[k - 1].value,
             rrd.accepted[k].time - rrd.accepted[k - 1].time)

\* The accepted updates whose time falls in the slot that starts at s.
UpdatesIn(rra, s) ==
    {k \in 1..Len(rrd.accepted) :
        /\ rrd.accepted[k].time >= s
        /\ rrd.accepted[k].time < s + rra.resolution}

RECURSIVE SumOf(_)
SumOf(ks) ==
    IF ks = {} THEN Num(0)
    ELSE LET k == CHOOSE k \in ks : TRUE
         IN  RatAdd(SampleOf(k), SumOf(ks \ {k}))

\* The consolidation of the samples of the updates ks (not empty).
Consolidated(cf, ks) ==
    CASE cf = "Average" -> RatDiv(SumOf(ks), Cardinality(ks))
      [] cf = "Maximum" ->
             SampleOf(CHOOSE k \in ks :
                        \A j \in ks : ~RatLess(SampleOf(k), SampleOf(j)))
      [] cf = "Minimum" ->
             SampleOf(CHOOSE k \in ks :
                        \A j \in ks : ~RatLess(SampleOf(j), SampleOf(k)))
      [] OTHER -> SampleOf(Max(ks))

\* The start times of the slots in the window of an archive: slot_count
\* slots that end with the slot of the last update.
SlotTimes(rra) ==
    LET rrd_end == slot_end_time(rra, rrd.db.source.last_update)
    IN  {s \in 0..MaxRrdTime :
            /\ s % rra.resolution = 0
            /\ s < rrd_end
            /\ s + rra.resolution * Len(rra.data) >= rrd_end}

\* C27: for a Gauge or Derive data source, every filled slot of every archive
\* is a slot of the archive's window and holds the consolidation of the
\* samples of exactly the accepted updates whose times fall in its interval.
C27_SlotHoldsConsolidation ==
    rrd.db.source.dst \in {"Gauge", "Derive"} =>
        \A a \in 1..Len(rrd.db.rra_list) :
            LET rra == rrd.db.rra_list[a]
            IN  \A i \in 1..Len(rra.data) :
                    ~rra.data[i].nan =>
                        \E s \in SlotTimes(rra) :
                            /\ slot(rra, s) = i
                            /\ UpdatesIn(rra, s) # {}
                            /\ rra.data[i] = Consolidated(rra.cf, UpdatesIn(rra, s))
\* C28: extract returns a value for a slot time only if the slot lies in the
\* archive's window and an accepted update fell into its interval; skipped
\* slots and slot times outside the window read as None.
C28_ExtractOnlyFilled ==
    \A a \in 1..Len(rrd.db.rra_list) :
        LET rra == rrd.db.rra_list[a]
        IN  \A t \in 0..(2 * MaxRrdTime) :
                (/\ t % rra.resolution = 0
                 /\ ~extract_data(rra, t, rrd.db.source.last_update).nan)
                => /\ t \in SlotTimes(rra)
                   /\ UpdatesIn(rra, t) # {}
\* The outcome of an update that reports an error and emits no sample, with
\* the data source's last value afterwards.
RejectedWith(out, last_value) ==
    /\ out.err # ""
    /\ out.db.source.last_value = last_value
    /\ out.db.source.last_update = rrd.db.source.last_update
    /\ out.db.rra_list = rrd.db.rra_list

LowerThanLast(value) ==
    /\ rrd.db.source.dst = "Counter"
    /\ ~rrd.db.source.last_value.nan
    /\ RatLess(Num(value), rrd.db.source.last_value)

\* C29 as stated: for a Counter, every update whose value is lower than the
\* last recorded value records the value as last_value and reports an error,
\* with last_update and every archive slot unchanged.
C29_LowerValueRecordsBaseline ==
    \A time \in RrdTimes, value \in RrdValues :
        LowerThanLast(value) =>
            RejectedWith(Update(rrd.db, time, value), Num(value))

\* C29 amended: for a Counter, an update at a time after the last update
\* whose value is not negative and lower than the last recorded value records
\* the value as last_value and reports an error, with last_update and every
\* archive slot unchanged.
C29_ResetRecordsBaseline ==
    \A time \in RrdTimes, value \in RrdValues :
        (/\ LowerThanLast(value)
         /\ time > rrd.db.source.last_update
         /\ value >= 0)
        => RejectedWith(Update(rrd.db, time, value), Num(value))

\* A counter reset has just been detected and its value is the new baseline.
C29_Witness ==
    /\ rrd.db.source.dst = "Counter"
    /\ rrd.result = "conter overflow/reset detected"
    /\ rrd.db.source.last_value = Num(0)
    /\ rrd.accepted # <<>>
    /\ rrd.db.source.last_update = rrd.accepted[Len(rrd.accepted)].time

\* C30: a Counter rejects every update with a negative value: last_value,
\* last_update and every archive slot stay as they are.
C30_CounterRejectsNegative ==
    rrd.db.source.dst = "Counter" =>
        \A time \in RrdTimes, value \in RrdValues :
            value < 0 =>
                RejectedWith(Update(rrd.db, time, value), rrd.db.source.last_value)
\* C31: the blob reader hands no plaintext byte to its caller unless the
\* blob's crc, and its HMAC or GCM tag when it is signed or encrypted, have
\* validated: whenever the caller holds plaintext, finish has returned Ok.
C31_NoPlaintextBeforeValidation ==
    (blobr.state # "none" /\ blobr.out # <<>>) => blobr.result = "ok"
\* C32: for every v below 2^63 catalog_decode_u64 applied to the bytes
\* catalog_encode_u64(v) wrote returns v and consumes exactly those bytes, at
\* most 9, whatever follows them; catalog_encode_u64 fails, writing nothing,
\* for every v of 2^63 or more.
C32_EncodeDecodeRoundTrip ==
    /\ catalog.stage # "none" =>
           /\ (catalog.err # "" /\ catalog.stage = "encoded") <=> Bit63(catalog.v) = 1
           /\ Bit63(catalog.v) = 1 => catalog.buf = <<>>
           /\ catalog.written <= MaxEncodedLen
    /\ catalog.stage = "decoded" =>
           /\ catalog.err = ""
           /\ catalog.decoded = catalog.v
           /\ catalog.read = catalog.written

\* A value of 63 significant bits, nine bytes long, was decoded from a buffer
\* that goes on with a byte whose high bit is set.
C32_Witness ==
    /\ catalog.stage = "decoded"
    /\ catalog.v[U64Digits - 1] # 0
    /\ catalog.written = MaxEncodedLen
    /\ Len(catalog.buf) > catalog.written
    /\ catalog.buf[catalog.written + 1] >= 128
\* C33: while a backup session is running, verify_backup_dir on the session's
\* previous snapshot is granted the shared lock: the snapshot is not skipped.
C33_BaseVerifiedDuringBackup ==
    [][\A s \in Sessions :
          (/\ Running(s)
           /\ env[s].last_backup # NoTime
           /\ verify.phase = "list"
           /\ verify.list # <<>>
           /\ Head(verify.list) = PrevSnapshot(s)
           /\ verify' # verify)
          => ~(verify'.phase = "list"
               /\ verify'.results[PrevSnapshot(s)] = "skipped")]_vars
\* The worker's future of session s ends on an error of the connection or
\* on an abort after finish has succeeded.
EndsAfterFinish(s) ==
    /\ task[s].phase = "running"
    /\ task'[s].phase = "ended"
    /\ env[s].finished
    /\ task[s].conn = "error" \/ task[s].abort_requested

KeptWithoutError(s) ==
    /\ snaps'[OwnSnapshot(s)].exists
    /\ env[s].time \in SeqToSet(commits'[env[s].group])
    /\ task'[s].result = ""

\* C34 as stated: once finish has succeeded, a connection error or an abort
\* that ends the session leaves the snapshot committed and the task without
\* error.
C34_FinishedSurvivesError ==
    [][\A s \in Sessions : EndsAfterFinish(s) => KeptWithoutError(s)]_vars

\* C34 amended: once finish has succeeded on a session that is not a
\* benchmark session, a connection error or an abort that ends the session
\* leaves the snapshot committed and the task without error.
C34_FinishedBackupSurvivesError ==
    [][\A s \in Sessions :
          (EndsAfterFinish(s) /\ ~env[s].benchmark) => KeptWithoutError(s)]_vars

\* A backup that had finished has ended on an error or an abort and its
\* snapshot is committed.
C34_Witness ==
    \E s \in Sessions :
        /\ task[s].phase = "ended"
        /\ task[s].result = ""
        /\ env[s].finished
        /\ ~env[s].benchmark
        /\ task[s].conn # "closed"
        /\ task[s].conn = "error" \/ task[s].abort_requested
        /\ Committed(OwnSnapshot(s))
\* The writers of session s once the first j entries of the lists have been
\* appended to writer wid one after the other.
RECURSIVE AppendedPrefix(_, _, _, _, _)
AppendedPrefix(s, wid, digest_list, offset_list, j) ==
    IF j = 0 THEN env[s].writers
    ELSE [AppendedPrefix(s, wid, digest_list, offset_list, j - 1) EXCEPT
            ![wid] = WriterAppend(@, offset_list[j],
                                  PayloadSize(digest_list[j]), digest_list[j])]

\* Entry k of the lists fails after the entries before it: its digest is not
\* registered, or the index writer rejects it.
EntryFails(s, kind, wid, digest_list, offset_list, k) ==
    \/ digest_list[k] \notin env[s].known_chunks
    \/ WriterAppendError(s, kind, wid,
                         AppendedPrefix(s, wid, digest_list, offset_list, k - 1),
                         offset_list[k], PayloadSize(digest_list[k])) # ""

\* The first entry that fails, 0 when none does.
FirstFailing(s, kind, wid, digest_list, offset_list) ==
    LET bad == {k \in 1..Len(digest_list) :
                  /\ EntryFails(s, kind, wid, digest_list, offset_list, k)
                  /\ \A j \in 1..(k - 1) :
                        ~EntryFails(s, kind, wid, digest_list, offset_list, j)}
    IN  IF bad = {} THEN 0 ELSE CHOOSE k \in bad : TRUE

\* Writer after holds what writer before held and the entries 1..n of the
\* lists, and nothing else.
HoldsEntries(before, after, digest_list, offset_list, n) ==
    /\ after.count = before.count + n
    /\ IF before.kind = "dynamic"
       THEN after.data = before.data \o SubSeq(digest_list, 1, n)
       ELSE /\ Len(after.data) = Len(before.data)
            /\ \A i \in 1..Len(after.data) :
                  after.data[i] =
                    IF \E j \in 1..n : (offset_list[j] \div chunk_size) + 1 = i
                    THEN digest_list[CHOOSE j \in 1..n :
                                        (offset_list[j] \div chunk_size) + 1 = i]
                    ELSE before.data[i]

\* C35: an append whose entry k is the first to fail returns an error and
\* leaves the entries before k appended to the writer, entry k and the
\* entries after it not appended, and every other writer as it was.
C35_AppendKeepsPrefix ==
    \A s \in Sessions, kind \in Kinds, wid \in Wids, l \in AppendLists :
        (Serving(s) /\ Len(l[1]) = Len(l[2])) =>
          LET out == AppendResult(s, kind, wid, l[1], l[2])
              k == FirstFailing(s, kind, wid, l[1], l[2])
          IN  k # 0 =>
                /\ out.err # ""
                /\ Len(out.writers) = Len(env[s].writers)
                /\ \A w \in 1..Len(env[s].writers) :
                      IF w = wid
                      THEN HoldsEntries(env[s].writers[w], out.writers[w],
                                        l[1], l[2], k - 1)
                      ELSE out.writers[w] = env[s].writers[w]

\* A request whose first entry is accepted and whose second entry fails can
\* be sent to a writer that has taken entries before.
C35_Witness ==
    \E s \in Sessions, kind \in Kinds, wid \in Wids, l \in AppendLists :
        /\ Serving(s)
        /\ Len(l[1]) = Len(l[2])
        /\ FirstFailing(s, kind, wid, l[1], l[2]) = 2
        /\ env[s].writers[wid].count > 0
        /\ AppendResult(s, kind, wid, l[1], l[2]).writers[wid].count
             = env[s].writers[wid].count + 1

\* C36: the last-worker listeners are notified only in shutdown mode, with no
\* worker task in WORKER_TASK_LIST and no internal task still running.
InternalRunning == \E i \in Internals : srv.ipc[i] = "running"

C36_NotifiedOnlyWhenIdle ==
    [][srv'.notified > srv.notified =>
          /\ srv.mode = "Shutdown"
          /\ srv.list = {}
          /\ ~InternalRunning]_vars

\* C37: once server_shutdown has been called and every worker task and every
\* internal task has ended, the last-worker listeners are notified, unless a
\* new task is started first.
AllEnded ==
    /\ srv.list = {}
    /\ \A i \in Internals : srv.ipc[i] \in {"none", "done"}

C37_ShutdownNotifies ==
    (srv.mode = "Shutdown" /\ AllEnded) ~> (srv.notified > 0 \/ ~AllEnded)

C37_Witness ==
    /\ srv.notified > 0
    /\ AllEnded
    /\ \E w \in Workers : srv.wpc[w] = "done"
    /\ \E i \in Internals : srv.ipc[i] = "done"

\* C38 as stated: a worker task that has been registered and is observed as
\* not active has its final result line in its log.  A task is active when
\* its process runs and WORKER_TASK_LIST holds it (worker_is_active_local,
\* the status command).
Registered(w) == srv.wpc[w] # "none"

ObservedActive(w) == srv.alive /\ w \in srv.list

C38_NotActiveHasResult ==
    \A w \in Workers : (Registered(w) /\ ~ObservedActive(w)) => srv.logged[w]

\* C38 amended: while the task's process is running, a task is taken from
\* WORKER_TASK_LIST only after its final result line is written, and a task
\* observed as not active has the line in its log.
C38_RemovedAfterResult ==
    \A w \in Workers :
        (srv.alive /\ Registered(w) /\ w \notin srv.list) => srv.logged[w]

C38_Witness ==
    \E w \in Workers :
        /\ srv.alive
        /\ srv.wpc[w] = "lr_count"
        /\ w \notin srv.list
        /\ srv.logged[w]

\* The UPIDs on the lines of a task list file.
UpidsIn(file) == {file[i].upid : i \in 1..Len(file)}

\* The step is a run of update_active_workers.
IsRun ==
    \E new_upid \in {0} \cup Upids :
        TaskFiles' = UpdateActiveWorkers(TaskFiles, tl'.task, tl'.clock, new_upid)

\* C39: a run of update_active_workers loses no task: a UPID of the active
\* or the index file is afterwards in the active file, and then still
\* running and without a state, in the index file or in the archive file.
C39_NoTaskLost ==
    [][IsRun =>
          /\ UpidsIn(tl.active) \cup UpidsIn(tl.index)
                 \subseteq UpidsIn(tl'.active) \cup UpidsIn(tl'.index)
                           \cup UpidsIn(tl'.archive)
          /\ \A i \in 1..Len(tl'.active) :
                /\ tl'.active[i].fields = 1
                /\ tl'.task[tl'.active[i].upid].status = "running"]_vars

\* C40: a finished-task line that update_active_workers writes for a task
\* that has stopped is read back as the state it was rendered from.
WrittenState(u) == StoppedStatus(tl.task, u, tl.clock)

C40_LineRoundTrip ==
    \A u \in Upids :
        tl.task[u].status \in {"ended", "dead"} =>
            parse_worker_status_line(
                render_task_line(TaskListInfo(u, WrittenState(u))))
            = WrittenState(u)
====
